---- MODULE Spec2Model ----
(***************************************************************************)
(* Metadata resolution engine of ytmusic (internal/metadata): the query    *)
(* normalizer, the candidate scorer, the primary match selector, the gap   *)
(* filler, the tag writer and the Resolve batch loop.                      *)
(*                                                                         *)
(* Strings are sequences of one-character strings.  Scores are exact       *)
(* rationals <<numerator, denominator>>.  Provider indices are 0-based as  *)
(* in the Go source.                                                       *)
(***************************************************************************)
EXTENDS Integers, Sequences, FiniteSets, TLC

\* ------------------------------------------------------------------------
\* Characters and strings
\* ------------------------------------------------------------------------

LowerSeq ==
  <<"a", "b", "c", "d", "e", "f", "g", "h", "i", "j", "k", "l", "m",
    "n", "o", "p", "q", "r", "s", "t", "u", "v", "w", "x", "y", "z">>

UpperSeq ==
  <<"A", "B", "C", "D", "E", "F", "G", "H", "I", "J", "K", "L", "M",
    "N", "O", "P", "Q", "R", "S", "T", "U", "V", "W", "X", "Y", "Z">>

Digits ==
  {"0", "1", "2", "3", "4", "5", "6", "7", "8", "9"}

DigitSeq ==
  <<"0", "1", "2", "3", "4", "5", "6", "7", "8", "9">>

\* unicode.IsSpace / regexp \s, restricted to the characters of the model
IsSpace(c) ==
  c \in {" ", "\t"}

IsLetter(c) ==
  \E k \in 1..Len(LowerSeq) : c = LowerSeq[k] \/ c = UpperSeq[k]

IsDigit(c) ==
  c \in Digits

\* strings.ToLower on one character
ToLowerChar(c) ==
  IF \E k \in 1..Len(UpperSeq) : UpperSeq[k] = c
  THEN LowerSeq[CHOOSE k \in 1..Len(UpperSeq) : UpperSeq[k] = c]
  ELSE c

ToLower(s) ==
  [k \in 1..Len(s) |-> ToLowerChar(s[k])]

RECURSIVE TrimLeft(_)
TrimLeft(s) ==
  IF s # <<>> /\ IsSpace(Head(s)) THEN TrimLeft(Tail(s)) ELSE s

RECURSIVE TrimRight(_)
TrimRight(s) ==
  IF s # <<>> /\ IsSpace(s[Len(s)]) THEN TrimRight(SubSeq(s, 1, Len(s) - 1)) ELSE s

\* strings.TrimSpace
TrimSpace(s) ==
  TrimRight(TrimLeft(s))

\* strings.Index(s, c) for a one-character c, 0-based, -1 when absent
Index(s, c) ==
  IF \E k \in 1..Len(s) : s[k] = c
  THEN (CHOOSE k \in 1..Len(s) : s[k] = c /\ \A j \in 1..(k - 1) : s[j] # c) - 1
  ELSE -1

\* strconv.Itoa for n >= 0
RECURSIVE Itoa(_)
Itoa(n) ==
  IF n < 10 THEN <<DigitSeq[n + 1]>>
  ELSE Itoa(n \div 10) \o <<DigitSeq[(n % 10) + 1]>>

\* ------------------------------------------------------------------------
\* Query normalizer (normalizer.go)
\* ------------------------------------------------------------------------

\* A cleanup pattern is a list of alternatives; an alternative is a list of
\* elements: a lowercase character matched case-insensitively, "WS0" for
\* \s* and "WS1" for \s+.
titleCleanupPatterns ==
  <<
    <<<<"WS0", "(", "o", "f", "f", "i", "c", "i", "a", "l", "WS1", "m", "u", "s", "i", "c", "WS1", "v", "i", "d", "e", "o", ")">>,
      <<"WS0", "(", "o", "f", "f", "i", "c", "i", "a", "l", "WS1", "v", "i", "d", "e", "o", ")">>>>,
    <<<<"WS0", "(", "o", "f", "f", "i", "c", "i", "a", "l", "WS1", "a", "u", "d", "i", "o", ")">>>>,
    <<<<"WS0", "(", "o", "f", "f", "i", "c", "i", "a", "l", "WS1", "l", "y", "r", "i", "c", "WS1", "v", "i", "d", "e", "o", ")">>>>,
    <<<<"WS0", "(", "o", "f", "f", "i", "c", "i", "a", "l", "WS1", "v", "i", "s", "u", "a", "l", "i", "z", "e", "r", ")">>>>,
    <<<<"WS0", "(", "l", "y", "r", "i", "c", "s", ")">>,
      <<"WS0", "(", "l", "y", "r", "i", "c", ")">>>>,
    <<<<"WS0", "(", "v", "i", "s", "u", "a", "l", "i", "z", "e", "r", ")">>,
      <<"WS0", "(", "v", "i", "s", "u", "a", "l", ")">>>>,
    <<<<"WS0", "(", "a", "u", "d", "i", "o", ")">>>>,
    <<<<"WS0", "(", "h", "d", ")">>>>,
    <<<<"WS0", "(", "h", "q", ")">>>>,
    <<<<"WS0", "(", "4", "k", ")">>>>,
    <<<<"WS0", "(", "e", "x", "p", "l", "i", "c", "i", "t", ")">>>>,
    <<<<"WS0", "(", "c", "l", "e", "a", "n", ")">>>>,
    <<<<"WS0", "[", "o", "f", "f", "i", "c", "i", "a", "l", "WS1", "m", "u", "s", "i", "c", "WS1", "v", "i", "d", "e", "o", "]">>,
      <<"WS0", "[", "o", "f", "f", "i", "c", "i", "a", "l", "WS1", "v", "i", "d", "e", "o", "]">>>>,
    <<<<"WS0", "[", "o", "f", "f", "i", "c", "i", "a", "l", "WS1", "a", "u", "d", "i", "o", "]">>>>,
    <<<<"WS0", "[", "o", "f", "f", "i", "c", "i", "a", "l", "WS1", "l", "y", "r", "i", "c", "WS1", "v", "i", "d", "e", "o", "]">>>>,
    <<<<"WS0", "[", "o", "f", "f", "i", "c", "i", "a", "l", "WS1", "v", "i", "s", "u", "a", "l", "i", "z", "e", "r", "]">>>>,
    <<<<"WS0", "[", "l", "y", "r", "i", "c", "s", "]">>,
      <<"WS0", "[", "l", "y", "r", "i", "c", "]">>>>,
    <<<<"WS0", "[", "v", "i", "s", "u", "a", "l", "i", "z", "e", "r", "]">>,
      <<"WS0", "[", "v", "i", "s", "u", "a", "l", "]">>>>,
    <<<<"WS0", "[", "a", "u", "d", "i", "o", "]">>>>,
    <<<<"WS0", "[", "h", "d", "]">>>>,
    <<<<"WS0", "[", "h", "q", "]">>>>,
    <<<<"WS0", "[", "4", "k", "]">>>>,
    <<<<"WS0", "[", "e", "x", "p", "l", "i", "c", "i", "t", "]">>>>,
    <<<<"WS0", "[", "c", "l", "e", "a", "n", "]">>>>
  >>

\* position after the whitespace run that starts at p
RECURSIVE SkipSpace(_, _)
SkipSpace(s, p) ==
  IF p <= Len(s) /\ IsSpace(s[p]) THEN SkipSpace(s, p + 1) ELSE p

\* position after a match of elements k.. of alt at position p of s, 0 if none
RECURSIVE MatchFrom(_, _, _, _)
MatchFrom(alt, k, s, p) ==
  IF k > Len(alt) THEN p
  ELSE IF alt[k] = "WS0" THEN MatchFrom(alt, k + 1, s, SkipSpace(s, p))
  ELSE IF alt[k] = "WS1"
       THEN IF SkipSpace(s, p) > p THEN MatchFrom(alt, k + 1, s, SkipSpace(s, p)) ELSE 0
  ELSE IF p <= Len(s) /\ ToLowerChar(s[p]) = alt[k] THEN MatchFrom(alt, k + 1, s, p + 1)
  ELSE 0

\* position after the match of the first matching alternative at p, 0 if none
RECURSIVE MatchAlts(_, _, _, _)
MatchAlts(alts, a, s, p) ==
  IF a > Len(alts) THEN 0
  ELSE IF MatchFrom(alts[a], 1, s, p) > 0 THEN MatchFrom(alts[a], 1, s, p)
  ELSE MatchAlts(alts, a + 1, s, p)

\* regexp.ReplaceAllString(s, "") for one cleanup pattern, scanning from p
RECURSIVE RemoveAll(_, _, _)
RemoveAll(alts, s, p) ==
  IF p > Len(s) THEN <<>>
  ELSE IF MatchAlts(alts, 1, s, p) > 0 THEN RemoveAll(alts, s, MatchAlts(alts, 1, s, p))
  ELSE <<s[p]>> \o RemoveAll(alts, s, p + 1)

\* the loop over titleCleanupPatterns
RECURSIVE CleanupTitle(_, _)
CleanupTitle(s, k) ==
  IF k > Len(titleCleanupPatterns) THEN s
  ELSE CleanupTitle(RemoveAll(titleCleanupPatterns[k], s, 1), k + 1)

IsCloser(c) ==
  c \in {")", "]"}

\* position after the run of non-closing characters that starts at p
RECURSIVE SkipNonCloser(_, _)
SkipNonCloser(s, p) ==
  IF p <= Len(s) /\ ~IsCloser(s[p]) THEN SkipNonCloser(s, p + 1) ELSE p

\* the keyword alternatives feat\.? | ft\.? | featuring
featuringKeywords ==
  << <<"f", "e", "a", "t", ".">>, <<"f", "e", "a", "t">>,
     <<"f", "t", ".">>, <<"f", "t">>,
     <<"f", "e", "a", "t", "u", "r", "i", "n", "g">> >>

\* after the keyword: \s+([^\)\]]+)[\)\]] ; returns the end position or 0
FeatTail(s, p) ==
  IF p <= Len(s) /\ IsSpace(s[p]) /\ SkipNonCloser(s, p) >= p + 2
     /\ SkipNonCloser(s, p) <= Len(s)
  THEN SkipNonCloser(s, p) + 1
  ELSE 0

RECURSIVE FeatKeyword(_, _, _)
FeatKeyword(a, s, p) ==
  IF a > Len(featuringKeywords) THEN 0
  ELSE IF MatchFrom(featuringKeywords[a], 1, s, p) > 0
          /\ FeatTail(s, MatchFrom(featuringKeywords[a], 1, s, p)) > 0
       THEN FeatTail(s, MatchFrom(featuringKeywords[a], 1, s, p))
  ELSE FeatKeyword(a + 1, s, p)

\* featuringPattern at position p: end position of the match or 0
featuringPattern(s, p) ==
  IF SkipSpace(s, p) <= Len(s) /\ s[SkipSpace(s, p)] \in {"(", "["}
  THEN FeatKeyword(1, s, SkipSpace(s, SkipSpace(s, p) + 1))
  ELSE 0

\* featuringPattern.ReplaceAllString(title, "")
RECURSIVE RemoveFeaturing(_, _)
RemoveFeaturing(s, p) ==
  IF p > Len(s) THEN <<>>
  ELSE IF featuringPattern(s, p) > 0 THEN RemoveFeaturing(s, featuringPattern(s, p))
  ELSE <<s[p]>> \o RemoveFeaturing(s, p + 1)

\* vevoPattern.ReplaceAllString(artist, ""): (?i)vevo$
vevoPattern(s) ==
  IF Len(s) >= 4 /\ ToLower(SubSeq(s, Len(s) - 3, Len(s))) = <<"v", "e", "v", "o">>
  THEN SubSeq(s, 1, Len(s) - 4)
  ELSE s

\* hyphen, en dash, em dash
IsDash(c) ==
  c \in {"-", "ndash", "mdash"}

\* artistTitleSeparator ^(.+?)\s*[-–—]\s*(.+)$ : the lengths k of
\* group 1 for which the rest of the pattern matches
SeparatorSplits(s) ==
  {k \in 1..Len(s) :
     /\ SkipSpace(s, k + 1) <= Len(s)
     /\ IsDash(s[SkipSpace(s, k + 1)])
     /\ SkipSpace(s, k + 1) < Len(s)}

\* FindStringSubmatch: <<>> when there is no match, else <<m[1], m[2]>>;
\* the lazy group 1 takes the shortest length, \s* is greedy but gives back
\* one character when nothing else is left for group 2
artistTitleSeparator(s) ==
  IF SeparatorSplits(s) = {} THEN <<>>
  ELSE LET k == CHOOSE x \in SeparatorSplits(s) : \A y \in SeparatorSplits(s) : x <= y
           d == SkipSpace(s, k + 1)
           g == IF SkipSpace(s, d + 1) <= Len(s) THEN SkipSpace(s, d + 1) ELSE Len(s)
       IN  <<SubSeq(s, 1, k), SubSeq(s, g, Len(s))>>

\* NormalizeQuery, the final trim: m is the separator match or <<>>
NormalizeSplit(t1, a0, m) ==
  IF m # <<>>
  THEN [Title |-> TrimSpace(TrimSpace(m[2])), Artist |-> TrimSpace(TrimSpace(m[1])),
        Album |-> <<>>]
  ELSE [Title |-> TrimSpace(t1), Artist |-> TrimSpace(a0), Album |-> <<>>]

\* (variant) the title is split whatever the artist is
NormalizeCleanedAlwaysSplit(t1, a0) ==
  NormalizeSplit(t1, a0, artistTitleSeparator(t1))

\* NormalizeQuery after the cleanup of the title: split "Artist - Title"
\* when the artist is empty
NormalizeCleaned(t1, a0) ==
  NormalizeSplit(t1, a0, IF a0 = <<>> THEN artistTitleSeparator(t1) ELSE <<>>)

\* NormalizeQuery on the trimmed title and the trimmed, VEVO-free artist
NormalizeTrimmed(t0, a0) ==
  IF t0 = <<>> THEN [Title |-> t0, Artist |-> a0, Album |-> <<>>]
  ELSE NormalizeCleaned(RemoveFeaturing(CleanupTitle(t0, 1), 1), a0)

\* NormalizeQuery: the query's Album is set by the caller
NormalizeQuery(title, artist) ==
  NormalizeTrimmed(TrimSpace(title), TrimSpace(vevoPattern(TrimSpace(artist))))

\* ------------------------------------------------------------------------
\* Candidate scorer (resolver.go)
\* ------------------------------------------------------------------------

RECURSIVE Gcd(_, _)
Gcd(a, b) ==
  IF b = 0 THEN a ELSE Gcd(b, a % b)

\* the rational n/d in lowest terms (n >= 0, d > 0)
Rat(n, d) ==
  IF n = 0 THEN <<0, 1>> ELSE <<n \div Gcd(n, d), d \div Gcd(n, d)>>

RatLess(x, y) ==
  x[1] * y[2] < y[1] * x[2]

RatLeq(x, y) ==
  x[1] * y[2] <= y[1] * x[2]

RatMul(x, y) ==
  Rat(x[1] * y[1], x[2] * y[2])

RatAdd(x, y) ==
  Rat(x[1] * y[2] + y[1] * x[2], x[2] * y[2])

\* normalize: lowercase, keep letters, digits and whitespace
KeepAlnumSpace(c) ==
  IsLetter(c) \/ IsDigit(c) \/ IsSpace(c)

normalize(s) ==
  SelectSeq(ToLower(s), KeepAlnumSpace)

\* strings.Fields from position p, cur being the field under construction
RECURSIVE Fields(_, _, _)
Fields(s, p, cur) ==
  IF p > Len(s) THEN (IF cur = <<>> THEN <<>> ELSE <<cur>>)
  ELSE IF IsSpace(s[p])
       THEN (IF cur = <<>> THEN <<>> ELSE <<cur>>) \o Fields(s, p + 1, <<>>)
  ELSE Fields(s, p + 1, Append(cur, s[p]))

tokenize(s) ==
  Fields(s, 1, <<>>)

NotBlank(c) ==
  c # " "

\* strings.ReplaceAll(s, " ", "")
Compact(s) ==
  SelectSeq(s, NotBlank)

\* similarity, the token overlap: the tokens of a found in b (counted as a
\* list) over the longer of the two token lists
tokenOverlap(tokensA, tokensB) ==
  LET setB    == {tokensB[k] : k \in 1..Len(tokensB)}
      matches == Cardinality({k \in 1..Len(tokensA) : tokensA[k] \in setB})
      maxLen  == IF Len(tokensB) > Len(tokensA) THEN Len(tokensB) ELSE Len(tokensA)
  IN  IF Len(tokensA) = 0 \/ Len(tokensB) = 0 THEN <<0, 1>>
      ELSE Rat(matches, maxLen)

\* similarity of two normalized strings
similarity(a, b) ==
  IF a = <<>> /\ b = <<>> THEN <<1, 1>>
  ELSE IF a = <<>> \/ b = <<>> THEN <<0, 1>>
  ELSE IF Compact(a) = Compact(b) THEN <<1, 1>>
  ELSE tokenOverlap(tokenize(a), tokenize(b))

variousArtists ==
  <<"v", "a", "r", "i", "o", "u", "s", " ", "a", "r", "t", "i", "s", "t", "s">>

\* strings.EqualFold
EqualFold(s, t) ==
  ToLower(s) = ToLower(t)

\* (variant) the artist is weighted also when the query has none
weightedScoreAlwaysArtist(query, titleScore, artistScore) ==
  RatAdd(RatMul(titleScore, <<6, 10>>), RatMul(artistScore, <<4, 10>>))

\* score: the title alone, or 60% title and 40% artist
weightedScore(query, titleScore, artistScore) ==
  IF query.Artist = <<>> THEN titleScore
  ELSE RatAdd(RatMul(titleScore, <<6, 10>>), RatMul(artistScore, <<4, 10>>))

\* score: a result matching the file's album tag is boosted
albumBoost(query, result, s) ==
  IF /\ query.Album # <<>>
     /\ result.Album # <<>>
     /\ RatLess(<<8, 10>>, similarity(normalize(query.Album), normalize(result.Album)))
  THEN RatMul(s, <<11, 10>>) ELSE s

\* (variant) every result that names an album artist is penalized
compilationPenaltyAnyAlbumArtist(result, s) ==
  IF result.AlbumArtist # <<>> THEN RatMul(s, <<8, 10>>) ELSE s

\* score: compilation albums are penalized
compilationPenalty(result, s) ==
  IF EqualFold(result.AlbumArtist, variousArtists) THEN RatMul(s, <<8, 10>>) ELSE s

\* (variant) the score is not clamped
clampNone(s) ==
  s

\* score: clamp to 1.0
clamp(s) ==
  IF RatLess(<<1, 1>>, s) THEN <<1, 1>> ELSE s

\* score(query, result)
score(query, result) ==
  clamp(compilationPenalty(result, albumBoost(query, result,
    weightedScore(query,
                  similarity(normalize(query.Title), normalize(result.Title)),
                  similarity(normalize(query.Artist), normalize(result.Artist))))))

\* ------------------------------------------------------------------------
\* Data model (metadata.go) and the inputs of the model
\* ------------------------------------------------------------------------

\* bounds of the model
NProviders ==
  3

MaxFiles ==
  2

\* resolver.go: const defaultConfidenceThreshold = 0.7
defaultConfidenceThreshold ==
  <<7, 10>>

\* taglib keys written or read by the resolver
TagKeys ==
  {"TITLE", "ARTIST", "ALBUM", "ALBUMARTIST", "TRACKNUMBER", "DISCNUMBER",
   "DATE", "GENRE", "ISRC"}

\* the zero value of TrackInfo
ZeroTrack ==
  [Title |-> <<>>, Artist |-> <<>>, Album |-> <<>>, AlbumArtist |-> <<>>,
   TrackNumber |-> 0, TotalTracks |-> 0, DiscNumber |-> 0, Year |-> 0,
   ReleaseDate |-> <<>>, Genre |-> <<>>, ISRC |-> <<>>, ArtworkURL |-> <<>>,
   Duration |-> 0, Confidence |-> <<0, 1>>]

\* Candidates a provider may return (Confidence is 0 until scored).
\* candPrimary: a confident match that leaves gap fields empty
candPrimary ==
  [ZeroTrack EXCEPT !.Title = <<"a", " ", "b">>, !.Artist = <<"c">>,
                    !.Album = <<"m">>, !.AlbumArtist = <<"c">>, !.Year = 2020]

\* candComplete: a confident match with every gap field populated
candComplete ==
  [ZeroTrack EXCEPT !.Title = <<"A", " ", "b">>, !.Artist = <<"c">>,
                    !.Album = <<"m", "2">>, !.AlbumArtist = <<"c", "2">>,
                    !.TrackNumber = 1, !.TotalTracks = 9, !.DiscNumber = 1,
                    !.Year = 2021, !.ReleaseDate = <<"2", "0", "2", "1", "-", "0", "3">>,
                    !.Genre = <<"p">>, !.ISRC = <<"i">>, !.ArtworkURL = <<"u">>,
                    !.Duration = 200]

\* candFiller: a confident match with other authoritative fields and some gaps
candFiller ==
  [ZeroTrack EXCEPT !.Title = <<"a", "b">>, !.Artist = <<"c">>,
                    !.Album = <<"n">>, !.AlbumArtist = <<"d">>,
                    !.TrackNumber = 3, !.Year = 2019,
                    !.ReleaseDate = <<"2", "0", "1", "9", "-", "0", "1">>,
                    !.Genre = <<"r">>, !.ISRC = <<"j">>]

\* candLow: a weak match (half of the title, another artist)
candLow ==
  [ZeroTrack EXCEPT !.Title = <<"a">>, !.Artist = <<"x">>, !.Album = <<"k">>,
                    !.Genre = <<"z">>]

\* candMid: the right title by another artist
candMid ==
  [ZeroTrack EXCEPT !.Title = <<"a", " ", "b">>, !.Artist = <<"x">>, !.Genre = <<"y">>]

\* candEdge: half of the title by the right artist; it scores exactly 0.5
\* for the query of fileNoisy and exactly 0.7 for the query of fileTagged
candEdge ==
  [ZeroTrack EXCEPT !.Title = <<"a">>, !.Artist = <<"c">>, !.DiscNumber = 2,
                    !.Genre = <<"e">>]

\* what one Search call may return: an error, nothing, or a result list
Responses ==
  {[err |-> TRUE, results |-> <<>>],
   [err |-> FALSE, results |-> <<>>],
   [err |-> FALSE, results |-> <<candLow, candMid>>],
   [err |-> FALSE, results |-> <<candLow, candPrimary>>],
   [err |-> FALSE, results |-> <<candComplete>>],
   [err |-> FALSE, results |-> <<candFiller, candLow>>],
   [err |-> FALSE, results |-> <<candEdge>>]}

NoTags ==
  [k \in TagKeys |-> <<>>]

\* Files a batch may contain (tags as left by the downloader, no artwork).
\* noisy title, multi-artist credit with a channel suffix, no album artist
fileNoisy ==
  [tags |-> [NoTags EXCEPT !["TITLE"] = <<"a", " ", "b", " ", "(", "H", "D", ")">>,
                           !["ARTIST"] = <<"c", ",", " ", "d", "V", "E", "V", "O">>,
                           !["GENRE"] = <<"o">>],
   image |-> <<>>]

\* clean tags with an album and an album artist
fileTagged ==
  [tags |-> [NoTags EXCEPT !["TITLE"] = <<"a", " ", "b">>,
                           !["ARTIST"] = <<"c">>,
                           !["ALBUM"] = <<"m">>,
                           !["ALBUMARTIST"] = <<"e">>],
   image |-> <<>>]

\* no title tag
fileNoTitle ==
  [tags |-> [NoTags EXCEPT !["ARTIST"] = <<"c">>], image |-> <<>>]

\* a title that is only decoration
fileDecor ==
  [tags |-> [NoTags EXCEPT !["TITLE"] = <<" ", "(", "h", "d", ")">>,
                           !["ARTIST"] = <<"c">>],
   image |-> <<>>]

FileKinds ==
  {fileNoisy, fileTagged, fileNoTitle, fileDecor}

\* the batches: every list of at most MaxFiles files
Batches ==
  UNION {[1..n -> FileKinds] : n \in 0..MaxFiles}

\* the configured confidence thresholds (0 stands for "not configured")
ThresholdConfigs ==
  {<<0, 1>>, <<1, 2>>}

\* the bytes an artwork download may deliver
artworkBytes ==
  <<"i", "m", "g">>

\* ------------------------------------------------------------------------
\* Resolver helpers (resolver.go, tag writer)
\* ------------------------------------------------------------------------

\* NewResolver: a threshold <= 0 falls back to the default
NewResolver(cfg) ==
  IF RatLeq(cfg, <<0, 1>>) THEN defaultConfidenceThreshold ELSE cfg

\* firstTag: "" when the tag is absent
firstTag(tags, key) ==
  tags[key]

\* pickBest: r.Confidence = score(query, r)
scored(query, r) ==
  [r EXCEPT !.Confidence = score(query, r)]

\* (variant) a later result with the same score replaces best
betterOrEqual(best, r) ==
  IF RatLeq(best.Confidence, r.Confidence) THEN r ELSE best

\* pickBest: a later result replaces best only with a strictly higher score
better(best, r) ==
  IF RatLess(best.Confidence, r.Confidence) THEN r ELSE best

\* pickBest over results[k..], best being the best so far
RECURSIVE pickBestFrom(_, _, _, _)
pickBestFrom(query, results, k, best) ==
  IF k > Len(results) THEN best
  ELSE pickBestFrom(query, results, k + 1, better(best, scored(query, results[k])))

\* pickBest (results non-empty)
pickBest(query, results) ==
  pickBestFrom(query, results, 2, scored(query, results[1]))

hasMissingFields(t) ==
  \/ t.Genre = <<>>
  \/ t.TrackNumber = 0
  \/ t.DiscNumber = 0
  \/ t.Year = 0
  \/ t.ISRC = <<>>
  \/ t.ArtworkURL = <<>>

\* (variant) the filler's title and album replace the base's
mergeTrackInfoOverwriteAuth(base, filler) ==
  [base EXCEPT
     !.Title       = IF filler.Title # <<>> THEN filler.Title ELSE @,
     !.Album       = IF filler.Album # <<>> THEN filler.Album ELSE @,
     !.Genre       = IF base.Genre = <<>> /\ filler.Genre # <<>> THEN filler.Genre ELSE @,
     !.TrackNumber = IF base.TrackNumber = 0 /\ filler.TrackNumber # 0 THEN filler.TrackNumber ELSE @,
     !.TotalTracks = IF base.TotalTracks = 0 /\ filler.TotalTracks # 0 THEN filler.TotalTracks ELSE @,
     !.DiscNumber  = IF base.DiscNumber = 0 /\ filler.DiscNumber # 0 THEN filler.DiscNumber ELSE @,
     !.Year        = IF base.Year = 0 /\ filler.Year # 0 THEN filler.Year ELSE @,
     !.ReleaseDate = IF base.ReleaseDate = <<>> /\ filler.ReleaseDate # <<>> THEN filler.ReleaseDate ELSE @,
     !.ISRC        = IF base.ISRC = <<>> /\ filler.ISRC # <<>> THEN filler.ISRC ELSE @,
     !.ArtworkURL  = IF base.ArtworkURL = <<>> /\ filler.ArtworkURL # <<>> THEN filler.ArtworkURL ELSE @]

\* (variant) a non-empty filler genre and track number replace the base's
mergeTrackInfoLastWins(base, filler) ==
  [base EXCEPT
     !.Genre       = IF filler.Genre # <<>> THEN filler.Genre ELSE @,
     !.TrackNumber = IF filler.TrackNumber # 0 THEN filler.TrackNumber ELSE @,
     !.TotalTracks = IF base.TotalTracks = 0 /\ filler.TotalTracks # 0 THEN filler.TotalTracks ELSE @,
     !.DiscNumber  = IF base.DiscNumber = 0 /\ filler.DiscNumber # 0 THEN filler.DiscNumber ELSE @,
     !.Year        = IF base.Year = 0 /\ filler.Year # 0 THEN filler.Year ELSE @,
     !.ReleaseDate = IF base.ReleaseDate = <<>> /\ filler.ReleaseDate # <<>> THEN filler.ReleaseDate ELSE @,
     !.ISRC        = IF base.ISRC = <<>> /\ filler.ISRC # <<>> THEN filler.ISRC ELSE @,
     !.ArtworkURL  = IF base.ArtworkURL = <<>> /\ filler.ArtworkURL # <<>> THEN filler.ArtworkURL ELSE @]

\* mergeTrackInfo: gap fields of base that are zero take the filler's value
mergeTrackInfo(base, filler) ==
  [base EXCEPT
     !.Genre       = IF base.Genre = <<>> /\ filler.Genre # <<>> THEN filler.Genre ELSE @,
     !.TrackNumber = IF base.TrackNumber = 0 /\ filler.TrackNumber # 0 THEN filler.TrackNumber ELSE @,
     !.TotalTracks = IF base.TotalTracks = 0 /\ filler.TotalTracks # 0 THEN filler.TotalTracks ELSE @,
     !.DiscNumber  = IF base.DiscNumber = 0 /\ filler.DiscNumber # 0 THEN filler.DiscNumber ELSE @,
     !.Year        = IF base.Year = 0 /\ filler.Year # 0 THEN filler.Year ELSE @,
     !.ReleaseDate = IF base.ReleaseDate = <<>> /\ filler.ReleaseDate # <<>> THEN filler.ReleaseDate ELSE @,
     !.ISRC        = IF base.ISRC = <<>> /\ filler.ISRC # <<>> THEN filler.ISRC ELSE @,
     !.ArtworkURL  = IF base.ArtworkURL = <<>> /\ filler.ArtworkURL # <<>> THEN filler.ArtworkURL ELSE @]

\* the tag map WriteTags builds from info: only non-zero fields get a key
TagMap(info) ==
  [k \in {x \in TagKeys :
            \/ x = "TITLE" /\ info.Title # <<>>
            \/ x = "ARTIST" /\ info.Artist # <<>>
            \/ x = "ALBUM" /\ info.Album # <<>>
            \/ x = "ALBUMARTIST" /\ info.AlbumArtist # <<>>
            \/ x = "TRACKNUMBER" /\ info.TrackNumber > 0
            \/ x = "DISCNUMBER" /\ info.DiscNumber > 0
            \/ x = "DATE" /\ (info.ReleaseDate # <<>> \/ info.Year > 0)
            \/ x = "GENRE" /\ info.Genre # <<>>
            \/ x = "ISRC" /\ info.ISRC # <<>>}
     |-> CASE k = "TITLE" -> info.Title
           [] k = "ARTIST" -> info.Artist
           [] k = "ALBUM" -> info.Album
           [] k = "ALBUMARTIST" -> info.AlbumArtist
           [] k = "TRACKNUMBER" -> Itoa(info.TrackNumber)
           [] k = "DISCNUMBER" -> Itoa(info.DiscNumber)
           [] k = "DATE" -> IF info.ReleaseDate # <<>> THEN info.ReleaseDate ELSE Itoa(info.Year)
           [] k = "GENRE" -> info.Genre
           [] k = "ISRC" -> info.ISRC]

\* (variant) taglib.WriteTags with the Clear option: other tags are removed
taglibWriteTagsClear(tags, m) ==
  [k \in TagKeys |-> IF k \in DOMAIN m THEN m[k] ELSE <<>>]

\* taglib.WriteTags(path, m, 0): keys of m are replaced, other tags are kept
taglibWriteTags(tags, m) ==
  [k \in TagKeys |-> IF k \in DOMAIN m THEN m[k] ELSE tags[k]]

\* WriteTags on a file whose tags are tags, when the write succeeds
WriteTags(tags, info) ==
  taglibWriteTags(tags, TagMap(info))

\* the value ensureAlbumArtist derives from the Artist tag
primaryArtist(artist) ==
  IF Index(artist, ",") > 0 THEN TrimSpace(SubSeq(artist, 1, Index(artist, ","))) ELSE artist

\* (variant) the album artist is derived whether or not the file has one
ensureAlbumArtistOverwrite(tags, readOK, writeOK) ==
  IF ~readOK THEN tags
  ELSE IF firstTag(tags, "ARTIST") = <<>> THEN tags
  ELSE IF ~writeOK THEN tags
  ELSE taglibWriteTags(tags, [k \in {"ALBUMARTIST"} |-> primaryArtist(firstTag(tags, "ARTIST"))])

\* ensureAlbumArtist on a file whose tags are tags; readOK / writeOK say
\* whether taglib.ReadTags and taglib.WriteTags succeed
ensureAlbumArtist(tags, readOK, writeOK) ==
  IF ~readOK THEN tags
  ELSE IF firstTag(tags, "ALBUMARTIST") # <<>> THEN tags
  ELSE IF firstTag(tags, "ARTIST") = <<>> THEN tags
  ELSE IF ~writeOK THEN tags
  ELSE taglibWriteTags(tags, [k \in {"ALBUMARTIST"} |-> primaryArtist(firstTag(tags, "ARTIST"))])

\* ------------------------------------------------------------------------
\* State
\* ------------------------------------------------------------------------

VARIABLES
  fs,          \* the files of the batch: fs[k] = [tags, image], k = 1..Len(fs)
  threshold,   \* Resolver.threshold
  mock,        \* the canned answers of the providers (mockProvider.results, err)
               \* in the specifications that fix them; <<>> where every
               \* Search call answers freely
  now,         \* the clock of the specifications of the provider clients
  client,      \* the provider client: its kind and the fields of its Client struct
  calls,       \* the Search calls running on the client, one per calling goroutine
  net,         \* history: what the client sent and when
  jm,          \* the JobManager of the web server: its jobs and their listeners
  web,         \* the goroutines of the web server: processJob, the cancel
               \* request and the WebSocket connections
  dl,          \* a DownloadAll call and the goroutines it started
  pl,          \* a pipeline.Run call
  ctxDone,     \* the context passed to Resolve (and to Search) is cancelled
  pc,          \* position of the Resolve call
  fileIdx,     \* Resolve: loop index i (0-based)
  failed,      \* Resolve: failed counter
  result,      \* what Resolve returned: "none", "nil", "cancelled", "allfailed"
  query,       \* resolveFile: query
  best,        \* resolveFile: best
  matchIdx,    \* resolveFile: matchIdx
  err,         \* what resolveFile returned: "none", "nil", "read", "write"
  provIdx,     \* findPrimaryMatch / fillGaps: index of the provider to call next
  base,        \* fillGaps: base
  fs0,         \* history: the files as they were when Resolve was called
  outcomes,    \* history: what resolveFile returned for each finished file
  touched,     \* history: indices of the files read, searched for or written
  allProvErr,  \* history: every Search call of this Resolve returned an error
  primCalled,  \* history: providers called by the running findPrimaryMatch
  cleared,     \* history: of these, those whose best candidate cleared the threshold
  skipped,     \* history: of these, those that failed or returned nothing
  accepted,    \* history: the fillers merged by the running fillGaps, in order
  gapCalled,   \* history: providers called by the running fillGaps
  lastResp,    \* history: <<response>> of the latest Search of the running function
  ops          \* history: what resolveFile did to the current file

vars ==
  <<fs, threshold, mock, now, client, calls, net, jm, web, dl, pl, ctxDone, pc, fileIdx, failed, result, query, best, matchIdx,
    err, provIdx, base, fs0, outcomes, touched, allProvErr, primCalled, cleared,
    skipped, accepted, gapCalled, lastResp, ops>>

ZeroQuery ==
  [Title |-> <<>>, Artist |-> <<>>, Album |-> <<>>]

\* variables Resolve and the environment own, untouched by resolveFile's steps
batchVars ==
  <<threshold, mock, now, client, calls, net, jm, web, dl, pl, ctxDone, fileIdx, failed, result, fs0, outcomes>>

\* the locals of findPrimaryMatch and fillGaps with their histories
searchVars ==
  <<provIdx, base, primCalled, cleared, skipped, accepted, gapCalled, lastResp>>

\* the web server, the downloader and the pipeline are not running
ServerIdle ==
  /\ jm = <<>>
  /\ web = <<>>
  /\ dl = <<>>
  /\ pl = <<>>

serverVars ==
  <<jm, web, dl, pl>>

Init ==
  /\ fs \in Batches
  /\ fs0 = fs
  /\ threshold \in {NewResolver(cfg) : cfg \in ThresholdConfigs}
  /\ mock = <<>>
  /\ now = 0
  /\ client = <<>>
  /\ calls = <<>>
  /\ net = <<>>
  /\ ServerIdle
  /\ ctxDone = FALSE
  /\ pc = "loop"
  /\ fileIdx = 0
  /\ failed = 0
  /\ result = "none"
  /\ query = ZeroQuery
  /\ best = ZeroTrack
  /\ matchIdx = 0
  /\ err = "none"
  /\ provIdx = 0
  /\ base = ZeroTrack
  /\ outcomes = <<>>
  /\ touched = {}
  /\ allProvErr = TRUE
  /\ primCalled = {}
  /\ cleared = {}
  /\ skipped = {}
  /\ accepted = <<>>
  /\ gapCalled = {}
  /\ lastResp = <<>>
  /\ ops = {}

\* the file resolveFile is working on
path ==
  fileIdx + 1

\* a response whose best candidate clears the threshold t
Clears(resp, q, t) ==
  /\ ~resp.err
  /\ \E k \in 1..Len(resp.results) : RatLeq(t, score(q, resp.results[k]))

\* ------------------------------------------------------------------------
\* Actions
\* ------------------------------------------------------------------------

\* The caller cancels the context.  Resolve reads the context only at the loop
\* head (providers receive it too, and their responses are unconstrained), so
\* a cancellation is taken at the loop head that will observe it.
Cancel ==
  /\ pc = "loop"
  /\ ~ctxDone
  /\ ctxDone' = TRUE
  /\ UNCHANGED <<fs, threshold, mock, now, client, calls, net, jm, web, dl, pl, pc, fileIdx, failed, result, query, best, matchIdx,
                 err, provIdx, base, fs0, outcomes, touched, allProvErr, primCalled,
                 cleared, skipped, accepted, gapCalled, lastResp, ops>>

\* (variant) the context is checked before the first file only
ResolveLoopCheckOnce ==
  /\ pc = "loop"
  /\ fileIdx < Len(fs)
  /\ IF ctxDone /\ fileIdx = 0
     THEN /\ result' = "cancelled"
          /\ pc' = "done"
     ELSE /\ result' = result
          /\ pc' = "read"
  /\ UNCHANGED <<fs, threshold, mock, now, client, calls, net, jm, web, dl, pl, ctxDone, fileIdx, failed, query, best, matchIdx,
                 err, provIdx, base, fs0, outcomes, touched, allProvErr, primCalled,
                 cleared, skipped, accepted, gapCalled, lastResp, ops>>

\* Resolve, loop head: the cancellation check before each file
ResolveLoop ==
  /\ pc = "loop"
  /\ fileIdx < Len(fs)
  /\ IF ctxDone
     THEN /\ result' = "cancelled"
          /\ pc' = "done"
     ELSE /\ result' = result
          /\ pc' = "read"
  /\ UNCHANGED <<fs, threshold, mock, now, client, calls, net, jm, web, dl, pl, ctxDone, fileIdx, failed, query, best, matchIdx,
                 err, provIdx, base, fs0, outcomes, touched, allProvErr, primCalled,
                 cleared, skipped, accepted, gapCalled, lastResp, ops>>

\* (variant) any failed file makes the batch fail
aggregateAnyFailed(nFailed, nFiles) ==
  IF nFailed > 0 \/ nFiles = 0 THEN "allfailed" ELSE "nil"

\* Resolve, after the loop: the error only when every file failed
aggregate(nFailed, nFiles) ==
  IF nFailed = nFiles THEN "allfailed" ELSE "nil"

\* Resolve, after the loop: the aggregate policy
ResolveReturn ==
  /\ pc = "loop"
  /\ fileIdx >= Len(fs)
  /\ result' = aggregate(failed, Len(fs))
  /\ pc' = "done"
  /\ UNCHANGED <<fs, threshold, mock, now, client, calls, net, jm, web, dl, pl, ctxDone, fileIdx, failed, query, best, matchIdx,
                 err, provIdx, base, fs0, outcomes, touched, allProvErr, primCalled,
                 cleared, skipped, accepted, gapCalled, lastResp, ops>>

\* (variant) the empty normalized title is not checked
resolveQueryNoEmptyCheck(q) ==
  [err |-> "none", pc |-> "primary", query |-> q]

\* resolveFile: an empty normalized title ends the file without a search
resolveQuery(q) ==
  IF q.Title = <<>>
  THEN [err |-> "nil", pc |-> "returned", query |-> q]
  ELSE [err |-> "none", pc |-> "primary", query |-> q]

\* resolveFile: the query built from the file's tags
buildQuery(tags) ==
  [NormalizeQuery(firstTag(tags, "TITLE"), firstTag(tags, "ARTIST"))
     EXCEPT !.Album = TrimSpace(firstTag(tags, "ALBUM"))]

\* resolveFile up to the call of findPrimaryMatch: what it returns ("none"
\* while it goes on), where it continues, and the query
resolveFileEntry(tags, readOK) ==
  IF ~readOK THEN [err |-> "read", pc |-> "returned", query |-> ZeroQuery]
  ELSE IF firstTag(tags, "TITLE") = <<>>
  THEN [err |-> "nil", pc |-> "returned", query |-> ZeroQuery]
  ELSE resolveQuery(buildQuery(tags))

\* resolveFile: read the tags, normalize, decide whether to search
ReadTags ==
  /\ pc = "read"
  /\ \E readOK \in BOOLEAN :
     \E d \in {resolveFileEntry(fs[path].tags, readOK)} :
           /\ err' = d.err
           /\ pc' = d.pc
           /\ query' = d.query
  /\ best' = ZeroTrack
  /\ matchIdx' = 0
  /\ provIdx' = 0
  /\ touched' = touched \cup {path}
  /\ ops' = ops \cup {"ReadTags"}
  /\ UNCHANGED <<fs, allProvErr, base, primCalled, cleared, skipped, accepted, gapCalled,
                 lastResp>>
  /\ UNCHANGED batchVars

\* (variant) a clearing candidate is recorded but the loop goes on
primaryCandidateNoStop(t, b, m, i, candidate) ==
  IF RatLeq(t, candidate.Confidence) \/ RatLess(b.Confidence, candidate.Confidence)
  THEN [best |-> candidate, matchIdx |-> i, return |-> FALSE]
  ELSE [best |-> b, matchIdx |-> m, return |-> FALSE]

\* (variant) below the threshold the latest candidate is kept, not the best
primaryCandidateLastWins(t, b, m, i, candidate) ==
  IF RatLeq(t, candidate.Confidence)
  THEN [best |-> candidate, matchIdx |-> i, return |-> TRUE]
  ELSE [best |-> candidate, matchIdx |-> i, return |-> FALSE]

\* findPrimaryMatch, what a provider's best candidate does: returned when
\* it clears the threshold, kept when it beats the best so far
primaryCandidate(t, b, m, i, candidate) ==
  IF RatLeq(t, candidate.Confidence)
  THEN [best |-> candidate, matchIdx |-> i, return |-> TRUE]
  ELSE IF RatLess(b.Confidence, candidate.Confidence)
  THEN [best |-> candidate, matchIdx |-> i, return |-> FALSE]
  ELSE [best |-> b, matchIdx |-> m, return |-> FALSE]

\* (variant) a provider error ends the selection
primaryIterationAbortOnError(q, t, b, m, i, resp) ==
  IF resp.err
  THEN [best |-> b, matchIdx |-> m, return |-> TRUE]
  ELSE IF Len(resp.results) = 0
  THEN [best |-> b, matchIdx |-> m, return |-> FALSE]
  ELSE primaryCandidate(t, b, m, i, pickBest(q, resp.results))

\* findPrimaryMatch, the body of the loop for provider i answering resp:
\* the new best and matchIdx, and whether the function returns
primaryIteration(q, t, b, m, i, resp) ==
  IF resp.err \/ Len(resp.results) = 0
  THEN [best |-> b, matchIdx |-> m, return |-> FALSE]
  ELSE primaryCandidate(t, b, m, i, pickBest(q, resp.results))

\* findPrimaryMatch: one iteration of the loop over the providers
PrimarySearch ==
  /\ pc = "primary"
  /\ provIdx < NProviders
  /\ \E resp \in Responses :
     \E it \in {primaryIteration(query, threshold, best, matchIdx, provIdx, resp)} :
           /\ primCalled' = primCalled \cup {provIdx}
           /\ lastResp' = <<resp>>
           /\ allProvErr' = (allProvErr /\ resp.err)
           /\ cleared' = IF Clears(resp, query, threshold)
                          THEN cleared \cup {provIdx} ELSE cleared
           /\ skipped' = IF resp.err \/ Len(resp.results) = 0
                          THEN skipped \cup {provIdx} ELSE skipped
           /\ best' = it.best
           /\ matchIdx' = it.matchIdx
           /\ pc' = IF it.return THEN "selected" ELSE "primary"
           /\ provIdx' = IF it.return THEN provIdx ELSE provIdx + 1
  /\ touched' = touched \cup {path}
  /\ ops' = ops \cup {"findPrimaryMatch", "Search"}
  /\ UNCHANGED <<fs, query, err, base, accepted, gapCalled>>
  /\ UNCHANGED batchVars

\* findPrimaryMatch: the loop is over, return best and matchIdx
PrimaryExhausted ==
  /\ pc = "primary"
  /\ provIdx >= NProviders
  /\ pc' = "selected"
  /\ ops' = ops \cup {"findPrimaryMatch"}
  /\ UNCHANGED <<fs, query, best, matchIdx, err, touched, allProvErr>>
  /\ UNCHANGED searchVars
  /\ UNCHANGED batchVars

\* (variant) only a candidate without any score is rejected
belowThresholdZeroOnly(b, t) ==
  RatLeq(b.Confidence, <<0, 1>>)

\* (variant) a candidate scoring exactly the threshold is rejected
belowThresholdInclusive(b, t) ==
  RatLeq(b.Confidence, t)

\* resolveFile: best.Confidence < r.threshold
belowThreshold(b, t) ==
  RatLess(b.Confidence, t)

\* (variant) fillGaps goes through the providers whatever base has
shortCircuitNever(b) ==
  FALSE

\* fillGaps: if !hasMissingFields(base) { return base }
shortCircuit(b) ==
  ~hasMissingFields(b)

\* (variant) fillGaps goes through every provider
gapStartAll(fromIdx) ==
  0

\* fillGaps: range r.providers[fromIdx+1:]
gapStart(fromIdx) ==
  fromIdx + 1

\* resolveFile: the confidence check, and the entry of fillGaps
CheckConfidence ==
  /\ pc = "selected"
  /\ IF belowThreshold(best, threshold)
     THEN /\ pc' = "lowconf"
          /\ provIdx' = 0
          /\ UNCHANGED <<base, ops>>
     ELSE /\ base' = best
          /\ ops' = ops \cup {"fillGaps"}
          /\ IF shortCircuit(best)
             THEN /\ pc' = "filled"
                  /\ provIdx' = provIdx
             ELSE /\ pc' = "gap"
                  /\ provIdx' = gapStart(matchIdx)
  /\ primCalled' = {}
  /\ cleared' = {}
  /\ skipped' = {}
  /\ lastResp' = <<>>
  /\ UNCHANGED <<fs, query, best, matchIdx, err, touched, allProvErr, accepted, gapCalled>>
  /\ UNCHANGED batchVars

\* (variant) the loop of fillGaps never breaks
gapFillerNoBreak(t, b, filler) ==
  IF RatLess(filler.Confidence, t)
  THEN [base |-> b, merged |-> <<>>, break |-> FALSE]
  ELSE [base |-> mergeTrackInfo(b, filler), merged |-> <<filler>>, break |-> FALSE]

\* (variant) every provider's best candidate is merged
gapFillerNoThreshold(t, b, filler) ==
  [base |-> mergeTrackInfo(b, filler), merged |-> <<filler>>,
   break |-> ~hasMissingFields(mergeTrackInfo(b, filler))]

\* fillGaps, what a provider's best candidate does: skipped below the
\* threshold, merged otherwise, and the loop breaks when nothing is missing
gapFiller(t, b, filler) ==
  IF RatLess(filler.Confidence, t)
  THEN [base |-> b, merged |-> <<>>, break |-> FALSE]
  ELSE [base |-> mergeTrackInfo(b, filler), merged |-> <<filler>>,
        break |-> ~hasMissingFields(mergeTrackInfo(b, filler))]

\* fillGaps, the body of the loop for a provider answering resp: the new
\* base, whether a filler was merged, and whether the loop breaks
gapIteration(q, t, b, resp) ==
  IF resp.err \/ Len(resp.results) = 0
  THEN [base |-> b, merged |-> <<>>, break |-> FALSE]
  ELSE gapFiller(t, b, pickBest(q, resp.results))

\* fillGaps: one iteration of the loop over providers[fromIdx+1:]
GapSearch ==
  /\ pc = "gap"
  /\ provIdx < NProviders
  /\ \E resp \in Responses :
     \E it \in {gapIteration(query, threshold, base, resp)} :
           /\ allProvErr' = (allProvErr /\ resp.err)
           /\ gapCalled' = gapCalled \cup {provIdx}
           /\ lastResp' = <<resp>>
           /\ base' = it.base
           /\ accepted' = accepted \o it.merged
           /\ pc' = IF it.break THEN "filled" ELSE "gap"
           /\ provIdx' = IF it.break THEN provIdx ELSE provIdx + 1
  /\ touched' = touched \cup {path}
  /\ ops' = ops \cup {"Search"}
  /\ UNCHANGED <<fs, query, best, matchIdx, err, primCalled, cleared, skipped>>
  /\ UNCHANGED batchVars

\* fillGaps: the loop is over
GapExhausted ==
  /\ pc = "gap"
  /\ provIdx >= NProviders
  /\ pc' = "filled"
  /\ UNCHANGED <<fs, query, best, matchIdx, err, touched, allProvErr, ops>>
  /\ UNCHANGED searchVars
  /\ UNCHANGED batchVars

\* (variant) resolveFile returns right after WriteTags
afterWriteTagsReturn(b) ==
  "returned"

\* resolveFile after WriteTags: the artwork when the match has a URL, then
\* ensureAlbumArtist
afterWriteTags(b) ==
  IF b.ArtworkURL # <<>> THEN "artwork" ELSE "ensure"

\* resolveFile: best = fillGaps(...), then WriteTags
WriteTagsStep ==
  /\ pc = "filled"
  /\ best' = base
  /\ \E writeOK \in BOOLEAN :
       IF ~writeOK
       THEN /\ err' = "write"
            /\ pc' = "returned"
            /\ fs' = fs
       ELSE /\ fs' = [fs EXCEPT ![path].tags = WriteTags(@, base)]
            /\ err' = err
            /\ pc' = afterWriteTags(base)
  /\ touched' = touched \cup {path}
  /\ ops' = ops \cup {"WriteTags"}
  /\ accepted' = <<>>
  /\ gapCalled' = {}
  /\ lastResp' = <<>>
  /\ provIdx' = 0
  /\ base' = ZeroTrack
  /\ UNCHANGED <<query, matchIdx, allProvErr, primCalled, cleared, skipped>>
  /\ UNCHANGED batchVars

\* downloadAndEmbedArtwork: the request, the status, the read, WriteArtwork
ArtworkOutcomes ==
  {"request", "status", "read", "empty", "writeimage", "ok"}

\* the outcomes for which downloadAndEmbedArtwork returns an error
\* (WriteArtwork returns nil for empty data)
ArtworkErrors ==
  {"request", "status", "read", "writeimage"}

\* (variant) an artwork error is returned by resolveFile
ArtworkAbortOnError ==
  /\ pc = "artwork"
  /\ \E outcome \in ArtworkOutcomes :
       /\ fs' = IF outcome = "ok" THEN [fs EXCEPT ![path].image = artworkBytes] ELSE fs
       /\ ops' = ops \cup {"artwork"}
                    \cup (IF outcome \in ArtworkErrors THEN {"artworkError"} ELSE {})
       /\ pc' = IF outcome \in ArtworkErrors THEN "returned" ELSE "ensure"
       /\ err' = IF outcome \in ArtworkErrors THEN "artwork" ELSE err
  /\ touched' = touched \cup {path}
  /\ UNCHANGED <<query, best, matchIdx, allProvErr>>
  /\ UNCHANGED searchVars
  /\ UNCHANGED batchVars

\* resolveFile: the artwork step; an error is logged as a warning only
Artwork ==
  /\ pc = "artwork"
  /\ \E outcome \in ArtworkOutcomes :
       /\ fs' = IF outcome = "ok" THEN [fs EXCEPT ![path].image = artworkBytes] ELSE fs
       /\ ops' = ops \cup {"artwork"}
                    \cup (IF outcome \in ArtworkErrors THEN {"artworkError"} ELSE {})
  /\ pc' = "ensure"
  /\ touched' = touched \cup {path}
  /\ UNCHANGED <<query, best, matchIdx, err, allProvErr>>
  /\ UNCHANGED searchVars
  /\ UNCHANGED batchVars

\* (variant) a file without a confident match is reported as an error
EnsureAlbumArtistNoMatchFails ==
  /\ pc \in {"lowconf", "ensure"}
  /\ \E readOK \in BOOLEAN, writeOK \in BOOLEAN :
       fs' = [fs EXCEPT ![path].tags = ensureAlbumArtist(@, readOK, writeOK)]
  /\ err' = IF pc = "lowconf" THEN "nomatch" ELSE "nil"
  /\ pc' = "returned"
  /\ touched' = touched \cup {path}
  /\ ops' = ops \cup {"ensureAlbumArtist"}
  /\ UNCHANGED <<query, best, matchIdx, allProvErr>>
  /\ UNCHANGED searchVars
  /\ UNCHANGED batchVars

\* resolveFile: ensureAlbumArtist and return nil (both call sites)
EnsureAlbumArtist ==
  /\ pc \in {"lowconf", "ensure"}
  /\ \E readOK \in BOOLEAN, writeOK \in BOOLEAN :
       fs' = [fs EXCEPT ![path].tags = ensureAlbumArtist(@, readOK, writeOK)]
  /\ err' = "nil"
  /\ pc' = "returned"
  /\ touched' = touched \cup {path}
  /\ ops' = ops \cup {"ensureAlbumArtist"}
  /\ UNCHANGED <<query, best, matchIdx, allProvErr>>
  /\ UNCHANGED searchVars
  /\ UNCHANGED batchVars

\* (variant) only a failed read is counted
countFailureReadOnly(nFailed, e) ==
  IF e = "read" THEN nFailed + 1 ELSE nFailed

\* Resolve: if err := r.resolveFile(...); err != nil { failed++ }
countFailure(nFailed, e) ==
  IF e # "nil" THEN nFailed + 1 ELSE nFailed

\* (variant) a failed read or write of the tags ends the batch
AccountStopOnFailure ==
  /\ pc = "returned"
  /\ failed' = countFailure(failed, err)
  /\ outcomes' = Append(outcomes, err)
  /\ fileIdx' = fileIdx + 1
  /\ pc' = IF err \in {"read", "write"} THEN "done" ELSE "loop"
  /\ result' = IF err \in {"read", "write"} THEN "allfailed" ELSE result
  /\ err' = "none"
  /\ query' = ZeroQuery
  /\ best' = ZeroTrack
  /\ matchIdx' = 0
  /\ provIdx' = 0
  /\ base' = ZeroTrack
  /\ ops' = {}
  /\ UNCHANGED <<fs, threshold, mock, now, client, calls, net, jm, web, dl, pl, ctxDone, fs0, touched, allProvErr, primCalled,
                 cleared, skipped, accepted, gapCalled, lastResp>>

\* Resolve: resolveFile has returned; count a failure, go to the next file
Account ==
  /\ pc = "returned"
  /\ failed' = countFailure(failed, err)
  /\ outcomes' = Append(outcomes, err)
  /\ fileIdx' = fileIdx + 1
  /\ pc' = "loop"
  /\ err' = "none"
  /\ query' = ZeroQuery
  /\ best' = ZeroTrack
  /\ matchIdx' = 0
  /\ provIdx' = 0
  /\ base' = ZeroTrack
  /\ ops' = {}
  /\ UNCHANGED <<fs, threshold, mock, now, client, calls, net, jm, web, dl, pl, ctxDone, result, fs0, touched, allProvErr, primCalled,
                 cleared, skipped, accepted, gapCalled, lastResp>>

Next ==
  \/ Cancel
  \/ ResolveLoop
  \/ ResolveReturn
  \/ ReadTags
  \/ PrimarySearch
  \/ PrimaryExhausted
  \/ CheckConfidence
  \/ GapSearch
  \/ GapExhausted
  \/ WriteTagsStep
  \/ Artwork
  \/ EnsureAlbumArtist
  \/ Account

Spec ==
  Init /\ [][Next]_vars

\* ------------------------------------------------------------------------
\* findPrimaryMatch as a function of the providers' answers
\* ------------------------------------------------------------------------

\* candZero: an unrelated track, it scores 0 for every query of the model
candZero ==
  [ZeroTrack EXCEPT !.Title = <<"z">>, !.Artist = <<"x">>, !.Genre = <<"w">>]

\* the canned answers of a provider: those of Responses and an unrelated one
CannedResponses ==
  Responses \cup {[err |-> FALSE, results |-> <<candZero>>]}

\* the provider lists: mock[i + 1] is what provider i returns to every Search
ProviderTables ==
  [1..NProviders -> CannedResponses]

\* the queries resolveFile builds for the files that are searched for
Queries ==
  {buildQuery(f.tags) : f \in {fileNoisy, fileTagged}}

\* the variables the function specifications leave at their initial values
IdleInit ==
  /\ now = 0
  /\ client = <<>>
  /\ calls = <<>>
  /\ net = <<>>
  /\ ServerIdle
  /\ ctxDone = FALSE
  /\ fileIdx = 0
  /\ failed = 0
  /\ result = "none"
  /\ err = "none"
  /\ provIdx = 0
  /\ base = ZeroTrack
  /\ outcomes = <<>>
  /\ touched = {}
  /\ allProvErr = TRUE
  /\ primCalled = {}
  /\ cleared = {}
  /\ skipped = {}
  /\ accepted = <<>>
  /\ gapCalled = {}
  /\ lastResp = <<>>
  /\ ops = {}

idleVars ==
  <<now, client, calls, net, jm, web, dl, pl, ctxDone, fileIdx, failed, result, err, provIdx, base, outcomes, touched,
    allProvErr, primCalled, cleared, skipped, accepted, gapCalled, lastResp, ops>>

\* findPrimaryMatch: the loop from provider i on, b and m being best and
\* matchIdx so far
RECURSIVE findPrimaryMatchFrom(_, _, _, _, _, _)
RECURSIVE findPrimaryMatchNext(_, _, _, _, _)
findPrimaryMatchFrom(q, t, provs, i, b, m) ==
  IF i >= Len(provs) THEN [best |-> b, matchIdx |-> m]
  ELSE findPrimaryMatchNext(q, t, provs, i, primaryIteration(q, t, b, m, i, provs[i + 1]))

\* findPrimaryMatch: return, or go on with the next provider
findPrimaryMatchNext(q, t, provs, i, it) ==
  IF it.return THEN [best |-> it.best, matchIdx |-> it.matchIdx]
  ELSE findPrimaryMatchFrom(q, t, provs, i + 1, it.best, it.matchIdx)

findPrimaryMatch(q, t, provs) ==
  findPrimaryMatchFrom(q, t, provs, 0, ZeroTrack, 0)

PrimaryInit ==
  /\ IdleInit
  /\ fs = <<>>
  /\ fs0 = <<>>
  /\ threshold \in {NewResolver(cfg) : cfg \in ThresholdConfigs}
  /\ mock \in ProviderTables
  /\ query \in Queries
  /\ best = ZeroTrack
  /\ matchIdx = 0
  /\ pc = "primary"

\* best, matchIdx := r.findPrimaryMatch(ctx, query)
FindPrimaryMatchCall ==
  /\ pc = "primary"
  /\ \E r \in {findPrimaryMatch(query, threshold, mock)} :
       /\ best' = r.best
       /\ matchIdx' = r.matchIdx
  /\ pc' = "selected"
  /\ UNCHANGED <<fs, fs0, threshold, mock, query>>
  /\ UNCHANGED idleVars

PrimaryNext ==
  FindPrimaryMatchCall

SpecPrimary ==
  PrimaryInit /\ [][PrimaryNext]_vars

\* ------------------------------------------------------------------------
\* resolveFile as a function of the file's tags and the providers' answers
\* (every read and write of the file succeeds)
\* ------------------------------------------------------------------------

\* fillGaps: the loop from provider i on, b being base so far
RECURSIVE fillGapsFrom(_, _, _, _, _)
RECURSIVE fillGapsNext(_, _, _, _, _)
fillGapsFrom(q, t, provs, i, b) ==
  IF i >= Len(provs) THEN b
  ELSE fillGapsNext(q, t, provs, i, gapIteration(q, t, b, provs[i + 1]))

\* fillGaps: break, or go on with the next provider
fillGapsNext(q, t, provs, i, it) ==
  IF it.break THEN it.base
  ELSE fillGapsFrom(q, t, provs, i + 1, it.base)

fillGaps(q, t, provs, b, fromIdx) ==
  IF shortCircuit(b) THEN b
  ELSE fillGapsFrom(q, t, provs, gapStart(fromIdx), b)

\* resolveFile from the confidence check on, r being what findPrimaryMatch
\* returned: the tags the file ends with
resolveMatched(tags, q, t, provs, r) ==
  IF belowThreshold(r.best, t)
  THEN ensureAlbumArtist(tags, TRUE, TRUE)
  ELSE ensureAlbumArtist(WriteTags(tags, fillGaps(q, t, provs, r.best, r.matchIdx)),
                         TRUE, TRUE)

\* resolveFile after the tags were read, d being the outcome of the entry
resolveEntered(tags, t, provs, d) ==
  IF d.pc = "returned" THEN tags
  ELSE resolveMatched(tags, d.query, t, provs, findPrimaryMatch(d.query, t, provs))

\* the tags of a file after resolveFile
resolveFileTags(tags, t, provs) ==
  resolveEntered(tags, t, provs, resolveFileEntry(tags, TRUE))

\* the primary match resolveFile finds for a file with these tags
primaryOf(tags, t, provs) ==
  findPrimaryMatch(buildQuery(tags), t, provs).best

\* a batch of one file that is searched for, resolved twice by the same
\* Resolver with providers that answer the same both times
TwiceInit ==
  /\ IdleInit
  /\ fs \in {<<f>> : f \in {fileNoisy, fileTagged}}
  /\ fs0 = fs
  /\ threshold \in {NewResolver(cfg) : cfg \in ThresholdConfigs}
  /\ mock \in [1..NProviders -> Responses]
  /\ query = ZeroQuery
  /\ best = ZeroTrack
  /\ matchIdx = 0
  /\ pc = "first"

\* the first Resolve: the file is resolved when the match is confident
ResolveFirst ==
  /\ pc = "first"
  /\ fs' = [fs EXCEPT ![1].tags = resolveFileTags(@, threshold, mock)]
  /\ best' = primaryOf(fs[1].tags, threshold, mock)
  /\ query' = buildQuery(fs[1].tags)
  /\ pc' = IF belowThreshold(best', threshold) THEN "unresolved" ELSE "resolved"
  /\ UNCHANGED <<fs0, threshold, mock, matchIdx>>
  /\ UNCHANGED idleVars

\* the second Resolve, on the resolved file (fs0 keeps the file as the
\* second call found it)
ResolveSecond ==
  /\ pc = "resolved"
  /\ fs0' = fs
  /\ fs' = [fs EXCEPT ![1].tags = resolveFileTags(@, threshold, mock)]
  /\ best' = primaryOf(fs[1].tags, threshold, mock)
  /\ query' = buildQuery(fs[1].tags)
  /\ pc' = "twice"
  /\ UNCHANGED <<threshold, mock, matchIdx>>
  /\ UNCHANGED idleVars

TwiceNext ==
  \/ ResolveFirst
  \/ ResolveSecond

SpecTwice ==
  TwiceInit /\ [][TwiceNext]_vars

\* ------------------------------------------------------------------------
\* score as a function of the query and the result
\* ------------------------------------------------------------------------

ScoreTitles ==
  {<<>>, <<"a">>, <<"a", " ", "b">>, <<"A", "b">>, <<"!">>}

ScoreArtists ==
  {<<>>, <<"c">>, <<"x", " ", "c">>}

ScoreAlbums ==
  {<<>>, <<"m">>}

ScoreAlbumArtists ==
  {<<>>, <<"c">>,
   <<"V", "a", "r", "i", "o", "u", "s", " ", "A", "r", "t", "i", "s", "t", "s">>}

ScoreQueries ==
  [Title : ScoreTitles, Artist : ScoreArtists, Album : ScoreAlbums]

ScoreResults ==
  {[ZeroTrack EXCEPT !.Title = t, !.Artist = a, !.Album = al, !.AlbumArtist = aa] :
     t \in ScoreTitles, a \in ScoreArtists, al \in ScoreAlbums, aa \in ScoreAlbumArtists}

\* a query and a result not scored yet (best holds the result)
ScoreInit ==
  /\ IdleInit
  /\ fs = <<>>
  /\ fs0 = <<>>
  /\ threshold = defaultConfidenceThreshold
  /\ mock = <<>>
  /\ query \in ScoreQueries
  /\ best \in ScoreResults
  /\ matchIdx = 0
  /\ pc = "score"

\* pickBest: results[i].Confidence = score(query, results[i])
ScoreCall ==
  /\ pc = "score"
  /\ best' = scored(query, best)
  /\ pc' = "scored"
  /\ UNCHANGED <<fs, fs0, threshold, mock, query, matchIdx>>
  /\ UNCHANGED idleVars

ScoreNext ==
  ScoreCall

SpecScore ==
  ScoreInit /\ [][ScoreNext]_vars

\* ------------------------------------------------------------------------
\* similarity as a function of two normalized strings
\* ------------------------------------------------------------------------

\* normalized strings: empty, blank, one token, tokens repeated, tokens
\* spelled together
SimilarityStrings ==
  {<<>>, <<" ">>, <<"x">>, <<"y">>, <<"x", "y">>, <<"x", " ", "y">>,
   <<"y", " ", "x">>, <<"x", " ", "x">>, <<"x", " ", "x", " ", "y">>,
   <<"x", " ", "z">>, <<"x", " ", "y", " ", "z">>}

\* the two strings are the titles of the query and of the result
SimilarityInit ==
  /\ IdleInit
  /\ fs = <<>>
  /\ fs0 = <<>>
  /\ threshold = defaultConfidenceThreshold
  /\ mock = <<>>
  /\ query \in {[ZeroQuery EXCEPT !.Title = a] : a \in SimilarityStrings}
  /\ best \in {[ZeroTrack EXCEPT !.Title = b] : b \in SimilarityStrings}
  /\ matchIdx = 0
  /\ pc = "similarity"

\* score: titleScore := similarity(a, b), kept in Confidence
SimilarityCall ==
  /\ pc = "similarity"
  /\ best' = [best EXCEPT !.Confidence = similarity(query.Title, best.Title)]
  /\ pc' = "compared"
  /\ UNCHANGED <<fs, fs0, threshold, mock, query, matchIdx>>
  /\ UNCHANGED idleVars

SimilarityNext ==
  SimilarityCall

SpecSimilarity ==
  SimilarityInit /\ [][SimilarityNext]_vars

\* ------------------------------------------------------------------------
\* ensureAlbumArtist as a function of the file's tags
\* ------------------------------------------------------------------------

\* Artist tags: none, one artist, several artists, commas at the ends and
\* blanks around them
EnsureArtists ==
  {<<>>, <<"c">>, <<"c", ",", " ", "d">>, <<"c", " ", ",", "d">>,
   <<" ", "c", ",", "d">>, <<"c", ",", "d", ",", "e">>, <<",", "d">>,
   <<" ", ",", "d">>, <<"c", ",">>, <<"c", " ", "d">>}

EnsureAlbumArtists ==
  {<<>>, <<"e">>, <<"e", ",", "f">>}

EnsureFiles ==
  {[tags |-> [NoTags EXCEPT !["TITLE"] = t, !["ARTIST"] = a, !["ALBUMARTIST"] = aa],
    image |-> <<>>] :
     t \in {<<>>, <<"a">>}, a \in EnsureArtists, aa \in EnsureAlbumArtists}

\* resolveFile is about to call ensureAlbumArtist (either call site)
EnsureInit ==
  /\ IdleInit
  /\ fs \in {<<f>> : f \in EnsureFiles}
  /\ fs0 = fs
  /\ threshold = defaultConfidenceThreshold
  /\ mock = <<>>
  /\ query = ZeroQuery
  /\ best = ZeroTrack
  /\ matchIdx = 0
  /\ pc \in {"lowconf", "ensure"}

EnsureNext ==
  EnsureAlbumArtist

SpecEnsure ==
  EnsureInit /\ [][EnsureNext]_vars

\* ------------------------------------------------------------------------
\* NormalizeQuery as a function of the raw title and artist
\* ------------------------------------------------------------------------

\* raw titles: with one separator of each kind, several, a separator at an
\* end, none, blanks around, a decoration before or after
NormalizeTitles ==
  {<<>>, <<"-">>, <<"x", " ", "y">>, <<"x", " ", "-", " ", "y">>, <<"x", "-", "y">>,
   <<"x", " ", "ndash", " ", "y">>, <<"x", "mdash", "y">>,
   <<"x", " ", "-", " ", "y", " ", "-", " ", "z">>, <<"-", " ", "y">>, <<"x", " ", "-">>,
   <<" ", "x", " ", "-", " ", "y", " ">>,
   <<"(", "h", "d", ")", " ", "-", " ", "y">>,
   <<"x", " ", "-", " ", "y", " ", "(", "H", "D", ")">>}

\* raw artists: none, blank, a name, a channel name, the suffix alone
NormalizeArtists ==
  {<<>>, <<" ">>, <<"c">>, <<"c", " ">>, <<"c", "V", "E", "V", "O">>,
   <<"v", "e", "v", "o">>, <<"V", "E", "V", "O", " ">>}

NormalizeFiles ==
  {[tags |-> [NoTags EXCEPT !["TITLE"] = t, !["ARTIST"] = a], image |-> <<>>] :
     t \in NormalizeTitles, a \in NormalizeArtists}

\* resolveFile has read rawTitle and rawArtist from the file
NormalizeInit ==
  /\ IdleInit
  /\ fs \in {<<f>> : f \in NormalizeFiles}
  /\ fs0 = fs
  /\ threshold = defaultConfidenceThreshold
  /\ mock = <<>>
  /\ query = ZeroQuery
  /\ best = ZeroTrack
  /\ matchIdx = 0
  /\ pc = "normalize"

\* resolveFile: query := NormalizeQuery(rawTitle, rawArtist)
NormalizeCall ==
  /\ pc = "normalize"
  /\ query' = NormalizeQuery(firstTag(fs[1].tags, "TITLE"), firstTag(fs[1].tags, "ARTIST"))
  /\ pc' = "normalized"
  /\ UNCHANGED <<fs, fs0, threshold, mock, best, matchIdx>>
  /\ UNCHANGED idleVars

NormalizeNext ==
  NormalizeCall

SpecNormalize ==
  NormalizeInit /\ [][NormalizeNext]_vars

\* ------------------------------------------------------------------------
\* pickBest as a function of the query and the result list
\* ------------------------------------------------------------------------

\* the longest result list
MaxResults ==
  3

PickQueries ==
  {[Title |-> <<"a", " ", "b">>, Artist |-> <<"c">>, Album |-> <<>>],
   [Title |-> <<"a", " ", "b">>, Artist |-> <<>>, Album |-> <<"m">>],
   [Title |-> <<"a">>, Artist |-> <<"x">>, Album |-> <<>>]}

\* results of one provider: two that differ in the genre only, and others
\* that score higher or lower depending on the query
PickPool ==
  {[ZeroTrack EXCEPT !.Title = <<"a", " ", "b">>, !.Artist = <<"c">>, !.Genre = <<"p">>],
   [ZeroTrack EXCEPT !.Title = <<"a", " ", "b">>, !.Artist = <<"c">>, !.Genre = <<"r">>],
   [ZeroTrack EXCEPT !.Title = <<"a">>, !.Artist = <<"c">>],
   [ZeroTrack EXCEPT !.Title = <<"a", " ", "b">>, !.Artist = <<"x">>, !.Album = <<"m">>],
   [ZeroTrack EXCEPT !.Title = <<"b">>, !.Artist = <<"x">>]}

PickLists ==
  UNION {[1..n -> PickPool] : n \in 1..MaxResults}

\* a query and the non-empty result list of a provider (in mock)
PickInit ==
  /\ IdleInit
  /\ fs = <<>>
  /\ fs0 = <<>>
  /\ threshold = defaultConfidenceThreshold
  /\ mock \in {<<[err |-> FALSE, results |-> rs]>> : rs \in PickLists}
  /\ query \in PickQueries
  /\ best = ZeroTrack
  /\ matchIdx = 0
  /\ pc = "pick"

\* candidate := pickBest(query, results)
PickCall ==
  /\ pc = "pick"
  /\ best' = pickBest(query, mock[1].results)
  /\ pc' = "picked"
  /\ UNCHANGED <<fs, fs0, threshold, mock, query, matchIdx>>
  /\ UNCHANGED idleVars

PickNext ==
  PickCall

SpecPick ==
  PickInit /\ [][PickNext]_vars

\* ------------------------------------------------------------------------
\* Provider clients (internal/provider: deezer, itunes, musicbrainz, spotify)
\* ------------------------------------------------------------------------

\* the goroutines that call Search on the client
NCallers ==
  2

Callers ==
  1..NCallers

ProviderKinds ==
  {"spotify", "musicbrainz", "deezer", "itunes"}

\* the resolver is not running in the specifications of the clients
ResolverIdle ==
  /\ fs = <<>>
  /\ fs0 = <<>>
  /\ threshold = defaultConfidenceThreshold
  /\ mock = <<>>
  /\ pc = "idle"
  /\ fileIdx = 0
  /\ failed = 0
  /\ result = "none"
  /\ query = ZeroQuery
  /\ best = ZeroTrack
  /\ matchIdx = 0
  /\ err = "none"
  /\ provIdx = 0
  /\ base = ZeroTrack
  /\ outcomes = <<>>
  /\ touched = {}
  /\ allProvErr = TRUE
  /\ primCalled = {}
  /\ cleared = {}
  /\ skipped = {}
  /\ accepted = <<>>
  /\ gapCalled = {}
  /\ lastResp = <<>>
  /\ ops = {}

resolverVars ==
  <<fs, fs0, threshold, mock, pc, fileIdx, failed, result, query, best, matchIdx, err,
    provIdx, base, outcomes, touched, allProvErr, primCalled, cleared, skipped,
    accepted, gapCalled, lastResp, ops>>

\* the parts of the search term each client builds from the query: one part
\* for each field that is not empty (iTunes leaves the album out); the term
\* is the parts joined, so it is empty exactly when there is no part
deezerBuildQuery(q) ==
  (IF q.Title # <<>> THEN <<[key |-> "track", value |-> SelectSeq(q.Title, LAMBDA c : c # "\"")]>> ELSE <<>>)
  \o (IF q.Artist # <<>> THEN <<[key |-> "artist", value |-> SelectSeq(q.Artist, LAMBDA c : c # "\"")]>> ELSE <<>>)
  \o (IF q.Album # <<>> THEN <<[key |-> "album", value |-> SelectSeq(q.Album, LAMBDA c : c # "\"")]>> ELSE <<>>)

musicbrainzBuildQuery(q) ==
  (IF q.Title # <<>> THEN <<[key |-> "recording", value |-> q.Title]>> ELSE <<>>)
  \o (IF q.Artist # <<>> THEN <<[key |-> "artist", value |-> q.Artist]>> ELSE <<>>)
  \o (IF q.Album # <<>> THEN <<[key |-> "release", value |-> q.Album]>> ELSE <<>>)

buildSearchQuery(q) ==
  (IF q.Title # <<>> THEN <<[key |-> "track", value |-> q.Title]>> ELSE <<>>)
  \o (IF q.Artist # <<>> THEN <<[key |-> "artist", value |-> q.Artist]>> ELSE <<>>)
  \o (IF q.Album # <<>> THEN <<[key |-> "album", value |-> q.Album]>> ELSE <<>>)

buildTerm(q) ==
  (IF q.Title # <<>> THEN <<[key |-> "", value |-> q.Title]>> ELSE <<>>)
  \o (IF q.Artist # <<>> THEN <<[key |-> "", value |-> q.Artist]>> ELSE <<>>)

\* the search term of the client of this kind
searchTerm(kind, q) ==
  CASE kind = "deezer" -> deezerBuildQuery(q)
    [] kind = "musicbrainz" -> musicbrainzBuildQuery(q)
    [] kind = "spotify" -> buildSearchQuery(q)
    [] kind = "itunes" -> buildTerm(q)

\* (variant) Search goes on with an empty term
emptyTermNever(kind, q) ==
  FALSE

\* Search: q := buildQuery(query); if q == "" { return nil, nil }
emptyTerm(kind, q) ==
  searchTerm(kind, q) = <<>>

\* time.Second, in ticks of the clock: a tick is half a second
Second ==
  2

\* the zero time.Time of a new MusicBrainz client: time.Since of it is at
\* least a second at every instant of the clock
ZeroTime ==
  0 - Second

\* the clock stops here
MaxNow ==
  4

\* the queries Search is called with: no field, one field or every field
\* set, among them a title that is nothing but a double quote
SearchQueries ==
  { ZeroQuery,
    [ZeroQuery EXCEPT !.Album = <<"k">>],
    [ZeroQuery EXCEPT !.Artist = <<"c">>],
    [ZeroQuery EXCEPT !.Title = <<"\"">>],
    [Title |-> <<"a">>, Artist |-> <<"c">>, Album |-> <<"k">>] }

\* artist IDs of the first artist of a Spotify track item ("" when the item
\* carries none)
ArtistIDs ==
  {"A", "B"}

ItemLists ==
  {<<>>, <<"">>, <<"A">>, <<"A", "A">>, <<"A", "B">>}

GenreLists ==
  {<<>>, <<"g">>}

\* what httpClient.Do returns: an error, or a response with a status, a
\* Retry-After header ("" when absent) and a body that decodes or does not
NetErr ==
  [err |-> TRUE, status |-> 0, retryAfter |-> "", body |-> ""]

HTTPResponses ==
  {NetErr}
  \cup { [err |-> FALSE, status |-> 200, retryAfter |-> "", body |-> b] : b \in {"ok", "bad"} }
  \cup { [err |-> FALSE, status |-> s, retryAfter |-> h, body |-> ""] :
           s \in {429, 503}, h \in {"", "1"} }
  \cup { [err |-> FALSE, status |-> 500, retryAfter |-> "", body |-> ""] }

\* a request on a cancelled context fails in Do
doResponses(R) ==
  IF ctxDone THEN {NetErr} ELSE R

\* strconv.Atoi of the Retry-After values: "" is not read at all
atoi(h) ==
  IF h = "1" THEN [ok |-> TRUE, n |-> 1] ELSE [ok |-> FALSE, n |-> 0]

\* retryAfter := <default>; if ra != "" { if parsed, err := Atoi(ra); err == nil { retryAfter = parsed } }
retryAfterOf(r, default) ==
  IF r.retryAfter # "" /\ atoi(r.retryAfter).ok THEN atoi(r.retryAfter).n ELSE default

\* (variant) doWithRetry retries on every status but 200
retriesAlways(kind, status) ==
  status # 200

\* doWithRetry: Spotify retries on 429, MusicBrainz on 429 and 503; Deezer
\* and iTunes call httpClient.Do directly
retries(kind, status) ==
  CASE kind = "spotify" -> status = 429
    [] kind = "musicbrainz" -> status \in {429, 503}
    [] OTHER -> FALSE

\* the default backoff in seconds: retryAfter := 1 (Spotify), := 2 (MusicBrainz)
defaultRetryAfter(kind) ==
  IF kind = "spotify" THEN 1 ELSE 2

\* a call of Search that has not started
idleCall ==
  [pc |-> "idle", query |-> ZeroQuery, purpose |-> "search", resps |-> <<>>,
   wakeAt |-> 0, items |-> <<>>, genres |-> <<>>, ret |-> "none", left |-> 0,
   requested |-> FALSE, askedToken |-> FALSE, waited |-> FALSE]

\* a new client of this kind: New()
newClient(kind) ==
  [kind |-> kind, lastRequest |-> ZeroTime, mu |-> 0, accessToken |-> "",
   tokenExpiry |-> 0, genreCache |-> {}]

\* Search returns: (nil, nil), (results, nil) or (nil, err)
returned(call, ret) ==
  [call EXCEPT !.pc = "done", !.ret = ret, !.wakeAt = 0, !.items = <<>>, !.genres = <<>>]

\* the request of this purpose failed: Search returns the error, while
\* enrichGenres goes on with the next item
requestFailed(call) ==
  IF call.purpose = "search"
    THEN returned(call, "error")
    ELSE [call EXCEPT !.pc = "enrich", !.items = Tail(call.items), !.wakeAt = 0]

\* history of the client: the instants callers left rateLimit, the IDs whose
\* genres getArtistGenres has fetched and stored, and the last answer of the
\* token endpoint that carried a token with the instant it arrived
newNet ==
  [leaves |-> <<>>, fetched |-> {}, issued |-> <<>>]

\* where Search goes after the check of the term: MusicBrainz into
\* rateLimit, Spotify into getToken, Deezer and iTunes to the request
firstStep(kind) ==
  CASE kind = "musicbrainz" -> "rateLimit"
    [] kind = "spotify" -> "getToken"
    [] OTHER -> "do"

\* Search is called: the term is built and checked before anything else
SearchStart(c, Q) ==
  /\ calls[c].pc \in {"idle", "done"}
  /\ calls[c].left > 0
  /\ \E q \in Q :
       calls' = [calls EXCEPT ![c] =
         IF emptyTerm(client.kind, q)
           THEN returned([idleCall EXCEPT !.query = q, !.left = calls[c].left - 1], "nil")
           ELSE [idleCall EXCEPT !.query = q, !.left = calls[c].left - 1,
                                 !.pc = firstStep(client.kind)]]
  /\ UNCHANGED <<now, client, net, ctxDone, resolverVars, serverVars>>

\* rateLimit, first critical section: elapsed := time.Since(c.lastRequest)
RateLimitRead(c) ==
  /\ calls[c].pc = "rateLimit"
  /\ calls' = [calls EXCEPT ![c] =
       IF now - client.lastRequest < Second
         THEN [@ EXCEPT !.pc = "sleep", !.waited = TRUE,
                        !.wakeAt = now + (Second - (now - client.lastRequest))]
         ELSE [@ EXCEPT !.pc = "stamp", !.waited = TRUE]]
  /\ UNCHANGED <<now, client, net, ctxDone, resolverVars, serverVars>>

\* rateLimit: time.Sleep(time.Second - elapsed) is over
RateLimitWake(c) ==
  /\ calls[c].pc = "sleep"
  /\ now >= calls[c].wakeAt
  /\ calls' = [calls EXCEPT ![c].pc = "stamp", ![c].wakeAt = 0]
  /\ UNCHANGED <<now, client, net, ctxDone, resolverVars, serverVars>>

\* rateLimit, second critical section: c.lastRequest = time.Now(); the
\* caller leaves rateLimit
RateLimitStamp(c) ==
  /\ calls[c].pc = "stamp"
  /\ client' = [client EXCEPT !.lastRequest = now]
  /\ net' = [net EXCEPT !.leaves = Append(@, now)]
  /\ calls' = [calls EXCEPT ![c].pc = "do"]
  /\ UNCHANGED <<now, ctxDone, resolverVars, serverVars>>

\* getToken refreshes this many seconds early: tokenResp.ExpiresIn-60
RefreshMargin ==
  60

\* the bodies of the token endpoint: access_token and expires_in (seconds)
TokenBodies ==
  { [AccessToken |-> t, ExpiresIn |-> e] : t \in {"t", ""}, e \in {120, 30} }

\* (variant) getToken asks for a token every time
tokenValidNever(cl, t) ==
  FALSE

\* getToken: c.accessToken != "" && time.Now().Before(c.tokenExpiry)
tokenValid(cl, t) ==
  cl.accessToken # "" /\ t < cl.tokenExpiry

\* getToken takes c.mu; a valid token is returned at once (and c.mu released),
\* otherwise the token request is sent with c.mu held
GetToken(c) ==
  /\ calls[c].pc = "getToken"
  /\ client.mu = 0
  /\ IF tokenValid(client, now)
       THEN /\ calls' = [calls EXCEPT ![c].pc = "do"]
            /\ UNCHANGED <<client, net>>
       ELSE /\ calls' = [calls EXCEPT ![c].pc = "token", ![c].askedToken = TRUE]
            /\ client' = [client EXCEPT !.mu = c]
            /\ UNCHANGED net
  /\ UNCHANGED <<now, ctxDone, resolverVars, serverVars>>

\* getToken: the token endpoint answers; on 200 with a body that decodes the
\* token and its expiry are stored, and c.mu is released either way
TokenResponse(c, R, B) ==
  /\ calls[c].pc = "token"
  /\ \E r \in doResponses(R), b \in B :
       IF r.err \/ r.status # 200 \/ r.body = "bad"
         THEN /\ calls' = [calls EXCEPT ![c] = requestFailed(@)]
              /\ client' = [client EXCEPT !.mu = 0]
              /\ UNCHANGED net
         ELSE /\ calls' = [calls EXCEPT ![c].pc = "do"]
              /\ client' = [client EXCEPT !.mu = 0, !.accessToken = b.AccessToken,
                              !.tokenExpiry = now + (b.ExpiresIn - RefreshMargin) * Second]
              /\ net' = [net EXCEPT !.issued = <<[at |-> now, body |-> b]>>]
  /\ UNCHANGED <<now, ctxDone, resolverVars, serverVars>>

\* the code after doWithRetry, on its final response: an error, a status
\* other than 200 or a body that does not decode fail the request; the
\* artist's genres go to the cache, Spotify's search results to enrichGenres
afterResponse(kind, call, r, items, genres) ==
  IF r.err \/ r.status # 200 \/ r.body = "bad"
    THEN requestFailed(call)
    ELSE IF call.purpose = "artist"
      THEN [call EXCEPT !.pc = "store", !.genres = genres, !.wakeAt = 0]
      ELSE IF kind = "spotify"
        THEN [call EXCEPT !.pc = "enrich", !.items = items, !.wakeAt = 0]
        ELSE returned(call, "results")

\* what a 200 can carry: track items in the answer to Spotify's search, genres
\* in the answer of the artist endpoint
itemsFor(call) ==
  IF client.kind = "spotify" /\ call.purpose = "search" THEN ItemLists ELSE {<<>>}

genresFor(call) ==
  IF call.purpose = "artist" THEN GenreLists ELSE {<<>>}

\* what a response is logged as: its status (0 for an error of Do) and
\* whether its body decodes
logged(r) ==
  [status |-> IF r.err THEN 0 ELSE r.status, body |-> IF r.err THEN "" ELSE r.body]

\* doWithRetry, first attempt (Deezer, iTunes: the only httpClient.Do)
Do(c, R) ==
  /\ calls[c].pc = "do"
  /\ \E r \in doResponses(R), items \in itemsFor(calls[c]), genres \in genresFor(calls[c]) :
       calls' = [calls EXCEPT ![c] =
         IF ~r.err /\ retries(client.kind, r.status)
           THEN [@ EXCEPT !.pc = "backoff", !.requested = TRUE, !.resps = <<logged(r)>>,
                          !.wakeAt = now + retryAfterOf(r, defaultRetryAfter(client.kind)) * Second]
           ELSE afterResponse(client.kind,
                  [@ EXCEPT !.requested = TRUE, !.resps = <<logged(r)>>], r, items, genres)]
  /\ UNCHANGED <<now, client, net, ctxDone, resolverVars, serverVars>>

\* doWithRetry: the backoff is over (Spotify: time.Sleep; MusicBrainz: the
\* time.After case of the select, then c.lastRequest = time.Now())
BackoffElapsed(c) ==
  /\ calls[c].pc = "backoff"
  /\ now >= calls[c].wakeAt
  /\ calls' = [calls EXCEPT ![c].pc = "retry"]
  /\ client' = IF client.kind = "musicbrainz"
                 THEN [client EXCEPT !.lastRequest = now]
                 ELSE client
  /\ UNCHANGED <<now, net, ctxDone, resolverVars, serverVars>>

\* MusicBrainz doWithRetry: case <-ctx.Done(): return nil, ctx.Err()
BackoffCancelled(c) ==
  /\ calls[c].pc = "backoff"
  /\ client.kind = "musicbrainz"
  /\ ctxDone
  /\ calls' = [calls EXCEPT ![c] = requestFailed(@)]
  /\ UNCHANGED <<now, client, net, ctxDone, resolverVars, serverVars>>

\* doWithRetry: return c.httpClient.Do(retry), whatever it answers
Retry(c, R) ==
  /\ calls[c].pc = "retry"
  /\ \E r \in doResponses(R), items \in itemsFor(calls[c]), genres \in genresFor(calls[c]) :
       calls' = [calls EXCEPT ![c] =
         afterResponse(client.kind,
           [@ EXCEPT !.requested = TRUE, !.resps = Append(@, logged(r))], r, items, genres)]
  /\ UNCHANGED <<now, client, net, ctxDone, resolverVars, serverVars>>

\* (variant) the cache is not read
cachedGenresNone(cl, a) ==
  {}

\* the genres the cache holds for the artist, if any
cachedGenres(cl, a) ==
  {e \in cl.genreCache : e[1] = a}

\* enrichGenres: the next item; one without an artist ID is skipped, one
\* whose artist is in the cache is served from it (getArtistGenres, first
\* critical section), for the others getArtistGenres goes on to the request
EnrichGenres(c) ==
  /\ calls[c].pc = "enrich"
  /\ calls' = [calls EXCEPT ![c] =
       IF @.items = <<>>
         THEN returned(@, "results")
         ELSE IF Head(@.items) = "" \/ cachedGenres(client, Head(@.items)) # {}
           THEN [@ EXCEPT !.items = Tail(@)]
           ELSE [@ EXCEPT !.pc = "getToken", !.purpose = "artist", !.resps = <<>>]]
  /\ UNCHANGED <<now, client, net, ctxDone, resolverVars, serverVars>>

\* getArtistGenres, second critical section: c.genreCache[artistID] = artistResp.Genres
StoreGenres(c) ==
  /\ calls[c].pc = "store"
  /\ client' = [client EXCEPT !.genreCache =
       {e \in @ : e[1] # Head(calls[c].items)} \cup {<<Head(calls[c].items), calls[c].genres>>}]
  /\ net' = [net EXCEPT !.fetched = @ \cup {Head(calls[c].items)}]
  /\ calls' = [calls EXCEPT ![c].pc = "enrich", ![c].items = Tail(@), ![c].genres = <<>>]
  /\ UNCHANGED <<now, ctxDone, resolverVars, serverVars>>

\* half a second passes
Tick ==
  /\ now < MaxNow
  /\ now' = now + 1
  /\ UNCHANGED <<client, calls, net, ctxDone, resolverVars, serverVars>>

\* the caller of Search cancels the context
CancelSearch ==
  /\ ~ctxDone
  /\ ctxDone' = TRUE
  /\ UNCHANGED <<now, client, calls, net, resolverVars, serverVars>>

\* one Search on a new client of any kind (whose rateLimit has nothing to
\* sleep for)
SearchInit ==
  /\ ResolverIdle
  /\ ServerIdle
  /\ now = 0
  /\ client \in {newClient(kind) : kind \in ProviderKinds}
  /\ calls = [c \in {1} |-> [idleCall EXCEPT !.left = 1]]
  /\ net = newNet
  /\ ctxDone = FALSE

SearchNext ==
  \/ \E c \in DOMAIN calls : SearchStart(c, SearchQueries)
  \/ \E c \in DOMAIN calls : RateLimitRead(c)
  \/ \E c \in DOMAIN calls : RateLimitStamp(c)
  \/ \E c \in DOMAIN calls : GetToken(c)
  \/ \E c \in DOMAIN calls : TokenResponse(c, HTTPResponses, TokenBodies)
  \/ \E c \in DOMAIN calls : Do(c, HTTPResponses)
  \/ \E c \in DOMAIN calls : BackoffElapsed(c)
  \/ \E c \in DOMAIN calls : BackoffCancelled(c)
  \/ \E c \in DOMAIN calls : Retry(c, HTTPResponses)
  \/ \E c \in DOMAIN calls : EnrichGenres(c)
  \/ \E c \in DOMAIN calls : StoreGenres(c)
  \/ Tick
  \/ CancelSearch

SpecSearch ==
  SearchInit /\ [][SearchNext]_vars

\* several goroutines call Search on one MusicBrainz client
RateLimitInit ==
  /\ ResolverIdle
  /\ ServerIdle
  /\ now = 0
  /\ client = newClient("musicbrainz")
  /\ calls = [c \in Callers |-> [idleCall EXCEPT !.left = 1]]
  /\ net = newNet
  /\ ctxDone = FALSE

RateLimitNext ==
  \/ \E c \in DOMAIN calls : SearchStart(c, SearchQueries)
  \/ \E c \in DOMAIN calls : RateLimitRead(c)
  \/ \E c \in DOMAIN calls : RateLimitWake(c)
  \/ \E c \in DOMAIN calls : RateLimitStamp(c)
  \/ \E c \in DOMAIN calls : Do(c, HTTPResponses)
  \/ \E c \in DOMAIN calls : BackoffElapsed(c)
  \/ \E c \in DOMAIN calls : BackoffCancelled(c)
  \/ \E c \in DOMAIN calls : Retry(c, HTTPResponses)
  \/ Tick
  \/ CancelSearch

SpecRateLimit ==
  RateLimitInit /\ [][RateLimitNext]_vars

\* the clock of the Spotify client advances by half minutes, this many times
MaxHalfMinutes ==
  3

HalfMinute ==
  30 * Second

\* half a minute passes
TickHalfMinute ==
  /\ now < MaxHalfMinutes * HalfMinute
  /\ now' = now + HalfMinute
  /\ UNCHANGED <<client, calls, net, ctxDone, resolverVars, serverVars>>

\* what the Spotify client is given where it serves several callers: a query
\* with every field, the responses without the headers and the 503 that it
\* does not read, and three of the token bodies
SpotifyQueries ==
  {q \in SearchQueries : q.Title # <<>> /\ q.Album # <<>>}

SpotifyResponses ==
  {r \in HTTPResponses : r.retryAfter = "" /\ r.status # 503}

SpotifyTokens ==
  {b \in TokenBodies : b.AccessToken # "" \/ b.ExpiresIn > RefreshMargin}

\* several goroutines call Search on one Spotify client
SpotifyInit ==
  /\ ResolverIdle
  /\ ServerIdle
  /\ now = 0
  /\ client = newClient("spotify")
  /\ calls = [c \in Callers |-> [idleCall EXCEPT !.left = 1]]
  /\ net = newNet
  /\ ctxDone = FALSE

SpotifyNext ==
  \/ \E c \in DOMAIN calls : SearchStart(c, SpotifyQueries)
  \/ \E c \in DOMAIN calls : GetToken(c)
  \/ \E c \in DOMAIN calls : TokenResponse(c, SpotifyResponses, SpotifyTokens)
  \/ \E c \in DOMAIN calls : Do(c, SpotifyResponses)
  \/ \E c \in DOMAIN calls : BackoffElapsed(c)
  \/ \E c \in DOMAIN calls : Retry(c, SpotifyResponses)
  \/ \E c \in DOMAIN calls : EnrichGenres(c)
  \/ \E c \in DOMAIN calls : StoreGenres(c)
  \/ TickHalfMinute

SpecSpotify ==
  SpotifyInit /\ [][SpotifyNext]_vars
\* ------------------------------------------------------------------------
\* The job manager of the web server (internal/web/job.go) and the
\* goroutines that use it (internal/web/handlers.go, websocket.go)
\* ------------------------------------------------------------------------

\* the jobs a server run creates
MaxJobs ==
  2

JobIDs ==
  1..MaxJobs

\* the WebSocket connections a server run accepts
NConns ==
  2

Conns ==
  1..NConns

\* the longest list of URLs ExtractURLs returns: a playlist long enough for
\* the updates of one job to outrun the buffer of a listener
MaxURLs ==
  7

\* the web server's clock stops here
MaxHalfHours ==
  3

StatusPending ==
  "pending"

StatusRunning ==
  "running"

StatusCompleted ==
  "completed"

StatusFailed ==
  "failed"

StatusCancelled ==
  "cancelled"

\* the statuses for which UpdateJob stamps CompletedAt
Finished ==
  {StatusCompleted, StatusFailed, StatusCancelled}

\* time.Hour, in ticks of the clock of the web server: a tick is half an hour
Hour ==
  2

jobRetention ==
  1 * Hour

\* make(chan *Job, 10)
ListenerBuffer ==
  10

\* a map with the key k set to v
Put(m, k, v) ==
  [x \in DOMAIN m \cup {k} |-> IF x = k THEN v ELSE m[x]]

\* a map without the keys in K
Delete(m, K) ==
  [x \in DOMAIN m \ K |-> m[x]]

Elems(s) ==
  {s[k] : k \in 1..Len(s)}

\* a *time.Time: <<>> is nil, <<t>> points to the instant t
NewJobManager ==
  [jobs |-> <<>>, listeners |-> <<>>]

\* CreateJob's job; CreatedAt, which nothing reads, is left out
newJob ==
  [Status |-> StatusPending, Progress |-> 0, Total |-> 0, Error |-> FALSE,
   StartedAt |-> <<>>, CompletedAt |-> <<>>, Cancel |-> FALSE]

\* the closures the handlers pass to UpdateJob
fnStart ==
  [op |-> "start", n |-> 0]

fnFailed ==
  [op |-> "failed", n |-> 0]

fnTotal(n) ==
  [op |-> "total", n |-> n]

fnProgress ==
  [op |-> "progress", n |-> 0]

fnCompleted ==
  [op |-> "completed", n |-> 0]

fnCancelled ==
  [op |-> "cancelled", n |-> 0]

\* fn(job)
call(fn, job) ==
  CASE fn.op = "start" -> [job EXCEPT !.Cancel = TRUE, !.Status = StatusRunning]
    [] fn.op = "failed" -> [job EXCEPT !.Status = StatusFailed, !.Error = TRUE]
    [] fn.op = "total" -> [job EXCEPT !.Total = fn.n]
    [] fn.op = "progress" -> [job EXCEPT !.Progress = job.Progress + 1]
    [] fn.op = "completed" -> [job EXCEPT !.Status = StatusCompleted]
    [] fn.op = "cancelled" -> [job EXCEPT !.Status = StatusCancelled]

\* variant: a timestamp is written whether it is set or not
isNilAlways(ts) ==
  TRUE

\* job.StartedAt == nil, job.CompletedAt == nil
isNil(ts) ==
  ts = <<>>

\* UpdateJob after fn(job): the timestamps of a changed status
stamp(oldStatus, job, t) ==
  IF oldStatus = job.Status THEN job
  ELSE IF job.Status = StatusRunning
         THEN IF isNil(job.StartedAt) THEN [job EXCEPT !.StartedAt = <<t>>] ELSE job
  ELSE IF job.Status \in Finished
         THEN IF isNil(job.CompletedAt) THEN [job EXCEPT !.CompletedAt = <<t>>] ELSE job
  ELSE job

\* the listeners of a job, none where the job has no entry
listenersOf(m, id) ==
  IF id \in DOMAIN m.listeners THEN m.listeners[id] ELSE <<>>

\* notifyListeners: select { case ch <- job: default: } for every listener;
\* cs are the channels, ls the listeners of the job
notifyListeners(cs, ls) ==
  [c \in DOMAIN cs |->
     IF c \in Elems(ls) /\ ~cs[c].closed /\ cs[c].n < ListenerBuffer
       THEN [cs[c] EXCEPT !.n = cs[c].n + 1]
       ELSE cs[c]]

\* a send on a closed channel panics
sendsOnClosed(cs, ls) ==
  \E c \in Elems(ls) : cs[c].closed

\* a listener whose buffer is full gets nothing
dropsUpdate(cs, ls) ==
  \E c \in Elems(ls) : ~cs[c].closed /\ cs[c].n = ListenerBuffer

\* UpdateJob(id, fn) at the instant t: the manager, the channels and the
\* error it returns
UpdateJob(m, cs, id, fn, t) ==
  IF id \notin DOMAIN m.jobs
    THEN [jm |-> m, conns |-> cs, ret |-> "job not found", panicked |-> FALSE, dropped |-> FALSE]
    ELSE [jm |-> [m EXCEPT !.jobs[id] = stamp(m.jobs[id].Status, call(fn, m.jobs[id]), t)],
          conns |-> notifyListeners(cs, listenersOf(m, id)),
          ret |-> "nil",
          panicked |-> sendsOnClosed(cs, listenersOf(m, id)),
          dropped |-> dropsUpdate(cs, listenersOf(m, id))]

\* the step of a goroutine that calls UpdateJob
Update(id, fn, proc, cancel) ==
  \E u \in {UpdateJob(jm, web.conns, id, fn, now)} :
    /\ jm' = u.jm
    /\ web' = [web EXCEPT !.conns = u.conns, !.ret = u.ret,
                          !.panicked = web.panicked \/ u.panicked,
                          !.dropped = web.dropped \/ u.dropped,
                          !.proc = proc, !.cancel = cancel]

\* the variables the web server leaves alone
webIdle ==
  <<client, calls, net, ctxDone, resolverVars, dl, pl>>

\* handleDownload: CreateJob and go s.processJob(job)
CreateJob(id, n) ==
  /\ id \notin DOMAIN jm.jobs
  /\ web.proc[id].pc = "none"
  /\ \A k \in 1..(id - 1) : web.proc[k].pc # "none"
  /\ jm' = [jm EXCEPT !.jobs = Put(jm.jobs, id, newJob)]
  /\ web' = [web EXCEPT !.proc[id] = [pc |-> "start", urls |-> n, done |-> 0, ctxDone |-> FALSE],
                        !.ret = "none"]
  /\ UNCHANGED <<now, webIdle>>

\* processJob: the cancel function is stored and the job is running
ProcessStart(id) ==
  /\ web.proc[id].pc = "start"
  /\ Update(id, fnStart, [web.proc EXCEPT ![id].pc = "tempdir"], web.cancel)
  /\ UNCHANGED <<now, webIdle>>

\* the steps of processJob that can fail, in their order
stages ==
  <<"tempdir", "extract", "download", "merge", "import", "move">>

nextStage(s) ==
  stages[(CHOOSE k \in 1..Len(stages) : stages[k] = s) + 1]

\* processJob: CreateTempDir, DownloadAll, MergeFiles or Import returned
\* without an error
ProcessStep(id) ==
  /\ \/ web.proc[id].pc \in {"tempdir", "merge", "import"}
     \/ web.proc[id].pc = "download" /\ web.proc[id].done = web.proc[id].urls
  /\ web' = [web EXCEPT !.proc[id].pc = nextStage(web.proc[id].pc), !.ret = "none"]
  /\ UNCHANGED <<now, jm, webIdle>>

\* processJob: ExtractURLs returned the URLs, Total is set
ProcessTotal(id) ==
  /\ web.proc[id].pc = "extract"
  /\ ~web.proc[id].ctxDone
  /\ Update(id, fnTotal(web.proc[id].urls), [web.proc EXCEPT ![id].pc = "download"], web.cancel)
  /\ UNCHANGED <<now, webIdle>>

\* DownloadAll: a download goroutine ends and calls OnProgress; done counts
\* the goroutines that have ended
ProcessProgress(id) ==
  /\ web.proc[id].pc = "download"
  /\ web.proc[id].done < web.proc[id].urls
  /\ Update(id, fnProgress, [web.proc EXCEPT ![id].done = web.proc[id].done + 1], web.cancel)
  /\ UNCHANGED <<now, webIdle>>

\* processJob: a step returned an error, the job has failed; DownloadAll
\* returns one when the context is cancelled or every download has failed
ProcessFailed(id) ==
  /\ \/ web.proc[id].pc \in {"tempdir", "extract", "merge", "import", "move"}
     \/ /\ web.proc[id].pc = "download"
        /\ web.proc[id].ctxDone \/ web.proc[id].done = web.proc[id].urls
  /\ Update(id, fnFailed, [web.proc EXCEPT ![id].pc = "done"], web.cancel)
  /\ UNCHANGED <<now, webIdle>>

\* processJob: the files are in the output directory, the job is completed
ProcessCompleted(id) ==
  /\ web.proc[id].pc = "move"
  /\ Update(id, fnCompleted, [web.proc EXCEPT ![id].pc = "done"], web.cancel)
  /\ UNCHANGED <<now, webIdle>>

\* handleJobAction, POST cancel: GetJob, and job.Cancel() where it is set
CancelRequest(id) ==
  /\ web.cancel[id] = "none"
  /\ id \in DOMAIN jm.jobs
  /\ web' = [web EXCEPT !.cancel[id] = "got",
                        !.proc[id].ctxDone = web.proc[id].ctxDone \/ jm.jobs[id].Cancel,
                        !.ret = "none"]
  /\ UNCHANGED <<now, jm, webIdle>>

\* handleJobAction, POST cancel: the status is set to cancelled
CancelUpdate(id) ==
  /\ web.cancel[id] = "got"
  /\ Update(id, fnCancelled, web.proc, [web.cancel EXCEPT ![id] = "done"])
  /\ UNCHANGED <<now, webIdle>>

\* the jobs cleanup deletes at the instant t
expired(m, t) ==
  {id \in DOMAIN m.jobs :
     /\ m.jobs[id].CompletedAt # <<>>
     /\ m.jobs[id].CompletedAt[1] < t - jobRetention}

\* JobManager.cleanup, run by the ticker of StartCleanup
cleanup ==
  /\ expired(jm, now) # {}
  /\ jm' = [jobs |-> Delete(jm.jobs, expired(jm, now)),
            listeners |-> Delete(jm.listeners, expired(jm, now))]
  /\ web' = [web EXCEPT !.ret = "none"]
  /\ UNCHANGED <<now, webIdle>>

\* handleWebSocket: Subscribe(jobID)
Subscribe(c, id) ==
  /\ web.conns[c].pc = "idle"
  /\ \A k \in 1..(c - 1) : web.conns[k].pc # "idle"
  /\ jm' = [jm EXCEPT !.listeners = Put(jm.listeners, id, Append(listenersOf(jm, id), c))]
  /\ web' = [web EXCEPT !.conns[c] = [pc |-> "open", job |-> id, n |-> 0, closed |-> FALSE],
                        !.ret = "none"]
  /\ UNCHANGED <<now, webIdle>>

\* what the connection may read in job.Status after a receive: the job is
\* read without the lock, a status written once may be seen or not
seesFinished(m, id) ==
  IF id \notin DOMAIN m.jobs THEN BOOLEAN
  ELSE IF m.jobs[id].CompletedAt = <<>> THEN {FALSE}
  ELSE IF m.jobs[id].Status \in Finished THEN {TRUE}
  ELSE BOOLEAN

\* handleWebSocket: an update is received and written to the client; the
\* handler returns after the update of a finished job
Receive(c) ==
  /\ web.conns[c].pc = "open"
  /\ web.conns[c].n > 0
  /\ \E leave \in seesFinished(jm, web.conns[c].job) :
       web' = [web EXCEPT !.conns[c].n = web.conns[c].n - 1,
                          !.conns[c].pc = IF leave THEN "leaving" ELSE "open",
                          !.ret = "none"]
  /\ UNCHANGED <<now, jm, webIdle>>

\* handleWebSocket: the client has gone, the handler returns
ClientGone(c) ==
  /\ web.conns[c].pc = "open"
  /\ web' = [web EXCEPT !.conns[c].pc = "leaving", !.ret = "none"]
  /\ UNCHANGED <<now, jm, webIdle>>

\* variant: the channel stays in the list of the listeners
removeListenerNever(ls, c) ==
  ls

\* listeners[:i] followed by listeners[i+1:], i the place of the channel
removeListener(ls, c) ==
  SelectSeq(ls, LAMBDA x : x # c)

\* the deferred Unsubscribe(jobID, updates): the channel leaves the list
\* and is closed, where the list still holds it
Unsubscribe(c) ==
  /\ web.conns[c].pc = "leaving"
  /\ \E id \in {web.conns[c].job} :
       /\ jm' = IF id \in DOMAIN jm.listeners
                  THEN [jm EXCEPT !.listeners[id] = removeListener(jm.listeners[id], c)]
                  ELSE jm
       /\ web' = [web EXCEPT !.conns[c].pc = "closed",
                             !.conns[c].closed = c \in Elems(listenersOf(jm, id)),
                             !.conns[c].n = IF c \in Elems(listenersOf(jm, id)) THEN 0 ELSE web.conns[c].n,
                             !.ret = "none"]
  /\ UNCHANGED <<now, webIdle>>

\* half an hour passes
Elapse ==
  /\ now < MaxHalfHours
  /\ now' = now + 1
  /\ web' = [web EXCEPT !.ret = "none"]
  /\ UNCHANGED <<jm, webIdle>>

JobsInit ==
  /\ ResolverIdle
  /\ client = <<>>
  /\ calls = <<>>
  /\ net = <<>>
  /\ ctxDone = FALSE
  /\ dl = <<>>
  /\ pl = <<>>
  /\ now = 0
  /\ jm = NewJobManager
  /\ web = [proc |-> [id \in JobIDs |-> [pc |-> "none", urls |-> 0, done |-> 0, ctxDone |-> FALSE]],
            cancel |-> [id \in JobIDs |-> "none"],
            conns |-> [c \in Conns |-> [pc |-> "idle", job |-> 0, n |-> 0, closed |-> FALSE]],
            ret |-> "none", panicked |-> FALSE, dropped |-> FALSE]

\* the jobs in I, each of n URLs for an n in N: their processing, their
\* cancellation and the cleanup
ProcessNext(I, N) ==
  \/ \E id \in I, n \in N : CreateJob(id, n)
  \/ \E id \in I : ProcessStart(id)
  \/ \E id \in I : ProcessStep(id)
  \/ \E id \in I : ProcessTotal(id)
  \/ \E id \in I : ProcessProgress(id)
  \/ \E id \in I : ProcessFailed(id)
  \/ \E id \in I : ProcessCompleted(id)
  \/ \E id \in I : CancelRequest(id)
  \/ \E id \in I : CancelUpdate(id)
  \/ cleanup
  \/ Elapse

\* two jobs of a single video, nobody listening
JobsNext ==
  ProcessNext(JobIDs, {1})

SpecJobs ==
  JobsInit /\ [][JobsNext]_vars

\* one job of a long playlist and its listeners
ListenersNext ==
  \/ ProcessNext({1}, {MaxURLs})
  \/ \E c \in Conns : Subscribe(c, 1)
  \/ \E c \in Conns : Receive(c)
  \/ \E c \in Conns : ClientGone(c)
  \/ \E c \in Conns : Unsubscribe(c)

SpecListeners ==
  JobsInit /\ [][ListenersNext]_vars

\* ------------------------------------------------------------------------
\* Downloader.DownloadAll (internal/downloader/downloader.go)
\* ------------------------------------------------------------------------

\* the longest list of URLs DownloadAll is given
MaxDownloads ==
  3

\* the largest Config.ParallelJobs
MaxParallel ==
  2

\* variant: room in the semaphore for every goroutine
semaphoreCapAll(p) ==
  p + MaxDownloads

\* make(chan struct{}, d.Config.ParallelJobs)
semaphoreCap(p) ==
  p

\* the goroutines that are inside DownloadSingle
downloading(d) ==
  {k \in DOMAIN d.g : d.g[k] = "downloading"}

\* the counter of the WaitGroup: the goroutines started and not yet done
wg(d) ==
  Cardinality({k \in DOMAIN d.g : d.g[k] \notin {"none", "done"}})

\* the elements in the semaphore: the goroutines between their send and
\* their deferred receive
semaphore(d) ==
  Cardinality({k \in DOMAIN d.g : d.g[k] \in {"downloading", "downloaded"}})

\* the variables DownloadAll leaves alone
downloadIdle ==
  <<now, client, calls, net, ctxDone, resolverVars, jm, web, pl>>

\* DownloadAll(ctx, urls) is called with n URLs and ParallelJobs = p
newDownload(n, p) ==
  [pc |-> "loop", parallel |-> p, i |-> 0, ctxDone |-> FALSE,
   g |-> [k \in 1..n |-> "none"], failed |-> 0, ret |-> "none"]

\* len(urls) == 0: "no URLs to download"
DownloadNothing ==
  /\ dl.pc = "loop"
  /\ DOMAIN dl.g = {}
  /\ dl' = [dl EXCEPT !.pc = "returned", !.ret = "no URLs to download"]
  /\ UNCHANGED downloadIdle

\* the loop over urls: the context is not cancelled, wg.Add(1) and the
\* goroutine of the next URL starts; after the last URL comes wg.Wait()
StartDownload ==
  /\ dl.pc = "loop"
  /\ DOMAIN dl.g # {}
  /\ ~dl.ctxDone
  /\ dl' = [dl EXCEPT !.i = dl.i + 1, !.g[dl.i + 1] = "started",
                      !.pc = IF dl.i + 1 = Len(dl.g) THEN "wait" ELSE "loop"]
  /\ UNCHANGED downloadIdle

\* the loop over urls: case <-ctx.Done(), the loop is left for wg.Wait()
LoopCancelled ==
  /\ dl.pc = "loop"
  /\ DOMAIN dl.g # {}
  /\ dl.ctxDone
  /\ dl' = [dl EXCEPT !.pc = "waitCancelled"]
  /\ UNCHANGED downloadIdle

\* a goroutine: semaphore <- struct{}{}, which blocks while the semaphore
\* is full
Acquire(k) ==
  /\ dl.g[k] = "started"
  /\ semaphore(dl) < semaphoreCap(dl.parallel)
  /\ dl' = [dl EXCEPT !.g[k] = "downloading"]
  /\ UNCHANGED downloadIdle

\* a goroutine: DownloadSingle returns, with an error where e is TRUE or the
\* context is cancelled; the URL is appended to failed when the context is
\* not cancelled; OnProgress is called
DownloadSingle(k, e) ==
  /\ dl.g[k] = "downloading"
  /\ dl' = [dl EXCEPT !.g[k] = "downloaded",
                      !.failed = IF e /\ ~dl.ctxDone THEN dl.failed + 1 ELSE dl.failed]
  /\ UNCHANGED downloadIdle

\* a goroutine returns: the deferred <-semaphore and wg.Done()
Release(k) ==
  /\ dl.g[k] = "downloaded"
  /\ dl' = [dl EXCEPT !.g[k] = "done"]
  /\ UNCHANGED downloadIdle

\* the caller cancels the context
CancelDownload ==
  /\ dl.pc # "returned"
  /\ ~dl.ctxDone
  /\ dl' = [dl EXCEPT !.ctxDone = TRUE]
  /\ UNCHANGED downloadIdle

\* wg.Wait() returns after the loop: the statistics and the error
WaitReturns ==
  /\ dl.pc = "wait"
  /\ wg(dl) = 0
  /\ dl' = [dl EXCEPT !.pc = "returned",
                      !.ret = IF dl.failed = Len(dl.g) THEN "all videos failed" ELSE "nil"]
  /\ UNCHANGED downloadIdle

\* wg.Wait() returns after the cancellation: "downloads cancelled"
WaitCancelledReturns ==
  /\ dl.pc = "waitCancelled"
  /\ wg(dl) = 0
  /\ dl' = [dl EXCEPT !.pc = "returned", !.ret = "downloads cancelled"]
  /\ UNCHANGED downloadIdle

DownloadInit ==
  /\ ResolverIdle
  /\ now = 0
  /\ client = <<>>
  /\ calls = <<>>
  /\ net = <<>>
  /\ ctxDone = FALSE
  /\ jm = <<>>
  /\ web = <<>>
  /\ pl = <<>>
  /\ dl \in {newDownload(n, p) : n \in 0..MaxDownloads, p \in 1..MaxParallel}

DownloadNext ==
  \/ DownloadNothing
  \/ StartDownload
  \/ LoopCancelled
  \/ \E k \in DOMAIN dl.g : Acquire(k)
  \/ \E k \in DOMAIN dl.g, e \in BOOLEAN : DownloadSingle(k, e)
  \/ \E k \in DOMAIN dl.g : Release(k)
  \/ CancelDownload
  \/ WaitReturns
  \/ WaitCancelledReturns

SpecDownload ==
  DownloadInit /\ [][DownloadNext]_vars

\* ------------------------------------------------------------------------
\* pipeline.Run (internal/pipeline/pipeline.go)
\* ------------------------------------------------------------------------

\* what Run is called with: cfg.DryRun, cfg.SkipLyrics, whether
\* buildProviders(cfg) returns a provider, whether hooks.OnWarning is set
RunConfigs ==
  [DryRun : BOOLEAN, SkipLyrics : BOOLEAN, providers : BOOLEAN, OnWarning : BOOLEAN]

\* the errors imp.Import returns, "nil" for none: the error of Resolve when
\* every file failed, and a cancelled context
ImportResults ==
  {"nil", "all files failed", "context canceled"}

newRun(cfg) ==
  [pc |-> "extract", cfg |-> cfg, ran |-> {}, warnings |-> <<>>,
   importErr |-> "none", moveErr |-> FALSE, ret |-> "none"]

\* the variables Run leaves alone
pipelineIdle ==
  <<now, client, calls, net, ctxDone, resolverVars, jm, web, dl>>

\* hooks.OnWarning(msg), where the hook is set
OnWarning(p, msg) ==
  IF p.cfg.OnWarning THEN Append(p.warnings, msg) ELSE p.warnings

\* Run returns err
return(p, e) ==
  [p EXCEPT !.pc = "returned", !.ret = e]

\* what follows the metadata resolution: ResolveLyrics unless cfg.SkipLyrics
afterImport(p) ==
  IF p.cfg.SkipLyrics THEN "move" ELSE "lyrics"

\* variant: the error of Import is returned, as in RunImportOnly
importFailedReturns(p, e) ==
  return([p EXCEPT !.ran = p.ran \cup {"import"}, !.importErr = e], "metadata resolution failed")

\* imp.Import returned the error e: a warning, and Run goes on
importFailed(p, e) ==
  [p EXCEPT !.ran = p.ran \cup {"import"}, !.importErr = e,
            !.warnings = OnWarning(p, "metadata resolution failed"),
            !.pc = afterImport(p)]

\* dl.ExtractURLs: an error, no URL, or the URLs; with cfg.DryRun the
\* result of FetchMetadata is returned
ExtractURLs(r, e) ==
  /\ pl.pc = "extract"
  /\ pl' = CASE r = "error" -> return(pl, "failed to extract URLs")
             [] r = "empty" -> return(pl, "no videos found")
             [] r = "urls" /\ pl.cfg.DryRun -> return(pl, IF e THEN "fetch metadata failed" ELSE "nil")
             [] OTHER -> [pl EXCEPT !.pc = "download"]
  /\ UNCHANGED pipelineIdle

\* dl.DownloadAll: an error, or statistics with or without failed videos
DownloadAll(r) ==
  /\ pl.pc = "download"
  /\ pl' = CASE r = "error" -> return(pl, "download failed")
             [] r = "some failed" -> [pl EXCEPT !.pc = "merge", !.ran = pl.ran \cup {"download"},
                                                !.warnings = OnWarning(pl, "videos failed to download")]
             [] OTHER -> [pl EXCEPT !.pc = "merge", !.ran = pl.ran \cup {"download"}]
  /\ UNCHANGED pipelineIdle

\* dl.MergeFiles, and the choice made of buildProviders(cfg)
MergeFiles(e) ==
  /\ pl.pc = "merge"
  /\ pl' = IF e THEN return(pl, "failed to merge files")
           ELSE [pl EXCEPT !.ran = pl.ran \cup {"merge"},
                           !.pc = IF pl.cfg.providers THEN "import" ELSE afterImport(pl)]
  /\ UNCHANGED pipelineIdle

\* imp.Import(ctx, mergedDir)
Import(r) ==
  /\ pl.pc = "import"
  /\ pl' = IF r = "nil"
             THEN [pl EXCEPT !.ran = pl.ran \cup {"import"}, !.importErr = "nil", !.pc = afterImport(pl)]
             ELSE importFailed(pl, r)
  /\ UNCHANGED pipelineIdle

\* ResolveLyrics(ctx, mergedDir, log), which returns nothing
ResolveLyrics ==
  /\ pl.pc = "lyrics"
  /\ pl' = [pl EXCEPT !.ran = pl.ran \cup {"lyrics"}, !.pc = "move"]
  /\ UNCHANGED pipelineIdle

\* utils.MoveAudioFiles and the return of Run
MoveAudioFiles(e) ==
  /\ pl.pc = "move"
  /\ pl' = return([pl EXCEPT !.ran = pl.ran \cup {"move"}, !.moveErr = e],
                  IF e THEN "failed to move files to output" ELSE "nil")
  /\ UNCHANGED pipelineIdle

PipelineInit ==
  /\ ResolverIdle
  /\ now = 0
  /\ client = <<>>
  /\ calls = <<>>
  /\ net = <<>>
  /\ ctxDone = FALSE
  /\ jm = <<>>
  /\ web = <<>>
  /\ dl = <<>>
  /\ pl \in {newRun(cfg) : cfg \in RunConfigs}

PipelineNext ==
  \/ \E r \in {"error", "empty", "urls"}, e \in BOOLEAN : ExtractURLs(r, e)
  \/ \E r \in {"error", "some failed", "ok"} : DownloadAll(r)
  \/ \E e \in BOOLEAN : MergeFiles(e)
  \/ \E r \in ImportResults : Import(r)
  \/ ResolveLyrics
  \/ \E e \in BOOLEAN : MoveAudioFiles(e)

SpecPipeline ==
  PipelineInit /\ [][PipelineNext]_vars


\* ------------------------------------------------------------------------
\* Properties
\* ------------------------------------------------------------------------

AuthFields ==
  {"Title", "Artist", "Album", "AlbumArtist"}

GapFields ==
  {"Genre", "TrackNumber", "TotalTracks", "DiscNumber", "Year", "ReleaseDate",
   "ISRC", "ArtworkURL"}

\* the zero value of a TrackInfo field
ZeroOf(f) ==
  ZeroTrack[f]

\* the value of field f in the first record of ts that has it non-zero
FirstNonZero(ts, f) ==
  IF \E k \in 1..Len(ts) : ts[k][f] # ZeroOf(f)
  THEN ts[CHOOSE k \in 1..Len(ts) :
            /\ ts[k][f] # ZeroOf(f)
            /\ \A j \in 1..(k - 1) : ts[j][f] = ZeroOf(f)][f]
  ELSE ZeroOf(f)

\* the candidates of the latest response, scored against the query
ScoredLast ==
  IF lastResp = <<>> THEN {}
  ELSE {[lastResp[1].results[k] EXCEPT !.Confidence = score(query, lastResp[1].results[k])] :
          k \in 1..Len(lastResp[1].results)}

\* C1: while fillGaps runs and when it returns, the running result has the
\* Title, Artist, Album and AlbumArtist of the primary match (best), whatever
\* the later providers returned.
C1_AuthoritativeKept ==
  pc \in {"gap", "filled"} => \A f \in AuthFields : base[f] = best[f]

\* fillGaps has returned after merging a filler whose authoritative fields
\* all differ from the primary's
C1_Witness ==
  /\ pc = "filled"
  /\ base # best
  /\ \E k \in 1..Len(accepted) :
       /\ accepted[k].Title # best.Title
       /\ accepted[k].Album # best.Album
       /\ accepted[k].AlbumArtist # best.AlbumArtist

\* C2: findPrimaryMatch calls the providers in order and stops at the first
\* one whose result clears the threshold: while it runs no called provider
\* has cleared, the called providers are 0..provIdx-1, and when it returns a
\* confident match, matchIdx is the smallest clearing index and the largest
\* index called.
C2_FirstClearingWins ==
  /\ pc = "primary" => cleared = {} /\ primCalled = 0..(provIdx - 1)
  /\ pc = "selected" =>
       /\ cleared # {} <=> RatLeq(threshold, best.Confidence)
       /\ cleared # {} =>
            /\ matchIdx \in cleared
            /\ \A j \in cleared : matchIdx <= j
            /\ primCalled = 0..matchIdx

\* the second provider won and a third one exists that was not called
C2_Witness ==
  /\ pc = "selected"
  /\ matchIdx = 1
  /\ cleared = {1}
  /\ primCalled = {0, 1}
  /\ 2 < NProviders
  /\ RatLeq(threshold, best.Confidence)

\* C3: a provider that fails or returns nothing never ends the selection:
\* when findPrimaryMatch has returned, the successor of each such provider
\* was called, and if that successor cleared the threshold the result is one
\* of its candidates, at or above the threshold, with its index.
C3_FallbackContinues ==
  pc = "selected" =>
    \A s \in skipped :
      /\ s + 1 < NProviders => s + 1 \in primCalled
      /\ s + 1 \in cleared =>
           /\ matchIdx = s + 1
           /\ best \in ScoredLast
           /\ RatLeq(threshold, best.Confidence)

\* provider 0 failed, provider 1 answered with a clearing candidate
C3_Witness ==
  /\ pc = "selected"
  /\ skipped = {0}
  /\ cleared = {1}
  /\ matchIdx = 1
  /\ best \in ScoredLast

\* C4: first writer wins for every gap-fillable field: during and after
\* fillGaps the value of the field in the running result is that of the
\* first record, in the order primary match then merged fillers, that has it
\* non-zero.
C4_FirstWriterWins ==
  pc \in {"gap", "filled"} =>
    \A f \in GapFields : base[f] = FirstNonZero(<<best>> \o accepted, f)

\* two fillers were merged that both carry a genre and a year, the primary
\* match having a year but no genre
C4_Witness ==
  /\ pc = "filled"
  /\ Len(accepted) = 2
  /\ best.Genre = <<>>
  /\ best.Year # 0
  /\ accepted[1].Genre # <<>>
  /\ accepted[2].Genre # <<>>
  /\ accepted[1].Genre # accepted[2].Genre
  /\ accepted[1].Year # 0
  /\ accepted[1].Year # best.Year
  /\ accepted[1].TrackNumber # accepted[2].TrackNumber

\* the files of the batch all carry a title that stays non-empty when
\* normalized, and no read of their tags has failed
AllSearchable ==
  /\ \A k \in 1..Len(fs0) :
       /\ fs0[k].tags["TITLE"] # <<>>
       /\ NormalizeQuery(fs0[k].tags["TITLE"], fs0[k].tags["ARTIST"]).Title # <<>>
  /\ \A k \in 1..Len(outcomes) : outcomes[k] # "read"
  /\ err # "read"

\* the number of finished files for which resolveFile returned an error
NumFailed ==
  Cardinality({k \in 1..Len(outcomes) : outcomes[k] # "nil"})

\* C5 as stated: if every provider returns an error for every file of a batch
\* of readable, titled files, Resolve returns a non-nil error.
C5_Original ==
  (pc = "done" /\ allProvErr /\ AllSearchable) => result # "nil"

\* C5 amended: in that case no file is counted as failed, and Resolve returns
\* nil unless the batch is empty or the context was cancelled.
C5_ProviderErrorsAreSoft ==
  (allProvErr /\ AllSearchable) =>
    /\ failed = 0
    /\ \A k \in 1..Len(outcomes) : outcomes[k] = "nil"
    /\ pc = "returned" => err = "nil"
    /\ (pc = "done" /\ Len(fs) > 0 /\ result # "cancelled") => result = "nil"

\* two searchable files, every Search failed, Resolve returned nil
C5_Witness ==
  /\ pc = "done"
  /\ result = "nil"
  /\ allProvErr
  /\ AllSearchable
  /\ Len(fs) >= 2
  /\ Len(outcomes) = Len(fs)
  /\ NProviders > 0

\* C6: the failure counter is the number of files for which resolveFile
\* returned an error; when Resolve has gone through the whole batch it
\* returns the error if every file failed and nil if some, but not all, or
\* none failed.
C6_AggregatePolicy ==
  /\ failed = NumFailed
  /\ (pc = "done" /\ Len(outcomes) = Len(fs)) =>
       /\ NumFailed = Len(fs) => result = "allfailed"
       /\ NumFailed < Len(fs) => result = "nil"

\* a batch of which one file failed on the tag write and another did not fail
C6_Witness ==
  /\ pc = "done"
  /\ result = "nil"
  /\ failed = 1
  /\ Len(fs) >= 2
  /\ \E k \in 1..Len(outcomes) : outcomes[k] = "write"

\* C7 as stated: Resolve returns an error only if resolveFile failed for
\* every file of the batch, whatever the state of the context.
C7_Original ==
  (pc = "done" /\ result # "nil") =>
    /\ Len(outcomes) = Len(fs)
    /\ \A k \in 1..Len(outcomes) : outcomes[k] # "nil"

\* C7 amended: Resolve returns an error only if resolveFile failed for every
\* file of the batch, or the context was found cancelled at the check before
\* a file.
C7_ErrorOnlyIfAllFailedOrCancelled ==
  (pc = "done" /\ result # "nil") =>
    \/ /\ result = "allfailed"
       /\ Len(outcomes) = Len(fs)
       /\ \A k \in 1..Len(outcomes) : outcomes[k] # "nil"
    \/ /\ result = "cancelled"
       /\ ctxDone
       /\ fileIdx < Len(fs)

\* Resolve returned the cancellation error after a file had succeeded
C7_Witness ==
  /\ pc = "done"
  /\ result = "cancelled"
  /\ \E k \in 1..Len(outcomes) : outcomes[k] = "nil"

\* the step in which Resolve returns the cancellation error
CancelReturnStep ==
  result # "cancelled" /\ result' = "cancelled"

\* C8: the context is checked before each file.  No file is being processed
\* while the context is cancelled; a cancelled context found before file
\* fileIdx makes Resolve return the error in that very step, which changes no
\* file; from then on no file at that position or later has been read,
\* searched for or written, and each still has the tags it had at the call.
C8_CancelBeforeEachFile ==
  /\ [](ctxDone => pc \in {"loop", "done"})
  /\ []((pc = "done" /\ ctxDone /\ fileIdx < Len(fs)) => result = "cancelled")
  /\ [](result = "cancelled" =>
          /\ pc = "done"
          /\ \A k \in (fileIdx + 1)..Len(fs) : k \notin touched /\ fs[k] = fs0[k])
  /\ [][CancelReturnStep => (pc = "loop" /\ ctxDone /\ pc' = "done" /\ fs' = fs
                               /\ touched' = touched)]_vars

\* cancelled before the second file, the first one having been rewritten
C8_Witness ==
  /\ result = "cancelled"
  /\ fileIdx = 1
  /\ Len(fs) >= 2
  /\ fs[1] # fs0[1]
  /\ "WriteTags" \notin ops
  /\ fs[1].tags["TITLE"] # fs0[1].tags["TITLE"]

\* findPrimaryMatch has returned a candidate below the threshold (or none)
LowConfidenceCase ==
  /\ pc \in {"lowconf", "returned"}
  /\ "findPrimaryMatch" \in ops
  /\ RatLess(best.Confidence, threshold)

\* C9: below the threshold resolveFile returns nil, calls neither fillGaps
\* nor WriteTags nor the artwork embedding, and leaves every tag and the
\* artwork of the file as they were, except that AlbumArtist may have been
\* set if it was missing.
C9_LowConfidenceKeepsTags ==
  LowConfidenceCase =>
    /\ pc = "returned" => err = "nil"
    /\ ops \cap {"fillGaps", "WriteTags", "artwork"} = {}
    /\ fs[path].image = fs0[path].image
    /\ \A key \in TagKeys \ {"ALBUMARTIST"} : fs[path].tags[key] = fs0[path].tags[key]
    /\ fs[path].tags["ALBUMARTIST"] # fs0[path].tags["ALBUMARTIST"]
         => fs0[path].tags["ALBUMARTIST"] = <<>>

\* a scored but insufficient candidate, and the heuristic has set AlbumArtist
C9_Witness ==
  /\ pc = "returned"
  /\ LowConfidenceCase
  /\ RatLess(<<0, 1>>, best.Confidence)
  /\ fs0[path].tags["ALBUMARTIST"] = <<>>
  /\ fs[path].tags["ALBUMARTIST"] # <<>>

\* the files without a title, or without any after normalizing
TitleLess ==
  {f \in FileKinds :
     \/ f.tags["TITLE"] = <<>>
     \/ NormalizeQuery(f.tags["TITLE"], f.tags["ARTIST"]).Title = <<>>}

\* the file resolveFile has just read has no title, or none after normalizing
NoTitleCase ==
  /\ pc = "returned"
  /\ err # "read"
  /\ fs0[path] \in TitleLess

\* C10: for a file without a Title tag, or whose normalized Title is empty,
\* resolveFile issues no Search, writes nothing to the file (the AlbumArtist
\* heuristic does not run) and returns nil; this holds for every finished
\* file of the batch too.
C10_NoTitleNoSearch ==
  /\ NoTitleCase =>
       /\ err = "nil"
       /\ ops = {"ReadTags"}
       /\ fs[path] = fs0[path]
  /\ \A k \in 1..Len(outcomes) :
       (outcomes[k] # "read" /\ fs0[k] \in TitleLess)
       => outcomes[k] = "nil" /\ fs[k] = fs0[k]

\* a file whose title is only decoration was skipped after one without title
C10_Witness ==
  /\ NoTitleCase
  /\ fs0[path].tags["TITLE"] # <<>>
  /\ fs0[path].tags["ARTIST"] # <<>>
  /\ query.Title = <<>>
  /\ \E k \in 1..Len(outcomes) : fs0[k].tags["TITLE"] = <<>> /\ outcomes[k] = "nil"

\* the latest Search of the running function returned candidates
HasLast ==
  /\ lastResp # <<>>
  /\ ~lastResp[1].err
  /\ Len(lastResp[1].results) > 0

\* the best-scoring candidate of the latest Search
LastCandidate ==
  pickBest(query, lastResp[1].results)

\* C11: the threshold comparison is inclusive in all three places.  In
\* findPrimaryMatch a provider's best candidate is returned, with the
\* provider's index, exactly when its score is >= the threshold (the loop
\* goes on when it is below); resolveFile goes on to fillGaps and WriteTags
\* exactly when the selected candidate's score is >= the threshold; fillGaps
\* merges a provider's best candidate exactly when its score is >= the
\* threshold.
C11_InclusiveThreshold ==
  /\ (pc \in {"primary", "selected"} /\ HasLast) =>
       IF RatLeq(threshold, LastCandidate.Confidence)
       THEN pc = "selected" /\ provIdx < NProviders
            /\ best = LastCandidate /\ matchIdx = provIdx
       ELSE pc = "primary" \/ provIdx >= NProviders
  /\ pc = "lowconf" => RatLess(best.Confidence, threshold)
  /\ (pc \in {"gap", "filled", "artwork", "ensure"} \/ "WriteTags" \in ops) =>
       RatLeq(threshold, best.Confidence)
  /\ (pc \in {"gap", "filled"} /\ HasLast) =>
       (RatLeq(threshold, LastCandidate.Confidence)
          <=> (accepted # <<>> /\ accepted[Len(accepted)] = LastCandidate))

\* the primary match and the latest merged filler both score exactly the
\* threshold, and the tags are about to be written
C11_Witness ==
  /\ pc = "filled"
  /\ HasLast
  /\ best.Confidence = threshold
  /\ accepted # <<>>
  /\ accepted[Len(accepted)].Confidence = threshold
  /\ LastCandidate.Confidence = threshold

\* the providers that answer the query with candidates
Responding ==
  {i \in 0..(NProviders - 1) : ~mock[i + 1].err /\ Len(mock[i + 1].results) > 0}

\* the best-scoring candidate of provider i
SeenAt(i) ==
  pickBest(query, mock[i + 1].results)

\* no provider's best candidate clears the threshold
NoneClears ==
  \A i \in Responding : RatLess(SeenAt(i).Confidence, threshold)

\* provider i returned the highest-scoring candidate seen
HighestAt(i) ==
  \A j \in Responding : RatLeq(SeenAt(j).Confidence, SeenAt(i).Confidence)

\* C12 as stated: if no provider clears the threshold, findPrimaryMatch
\* returns the highest-scoring candidate seen across the providers together
\* with the index of the provider that returned it.
C12_Original ==
  (pc = "selected" /\ NoneClears /\ Responding # {}) =>
    \E i \in Responding : HighestAt(i) /\ best = SeenAt(i) /\ matchIdx = i

\* C12 amended: if no provider clears the threshold and some candidate seen
\* scores above 0, findPrimaryMatch returns the highest-scoring candidate
\* seen, the one of the earliest provider when several score the same, with
\* that provider's index; if every candidate seen scores 0 (or none was seen)
\* it returns the zero TrackInfo and index 0.
C12_BestBelowThreshold ==
  (pc = "selected" /\ NoneClears) =>
    IF \E i \in Responding : RatLess(<<0, 1>>, SeenAt(i).Confidence)
    THEN \E i \in Responding :
           /\ HighestAt(i)
           /\ \A j \in Responding : j < i => RatLess(SeenAt(j).Confidence, SeenAt(i).Confidence)
           /\ best = SeenAt(i)
           /\ matchIdx = i
    ELSE best = ZeroTrack /\ matchIdx = 0

\* no provider cleared the threshold, the best candidate came from the
\* second provider and the third one returned a lower-scoring candidate
C12_Witness ==
  /\ pc = "selected"
  /\ NoneClears
  /\ matchIdx = 1
  /\ best = SeenAt(1)
  /\ RatLess(<<0, 1>>, best.Confidence)
  /\ 0 \in Responding
  /\ 2 \in Responding
  /\ RatLess(SeenAt(2).Confidence, best.Confidence)

\* the tags the second Resolve finds match the authoritative fields of a
\* candidate some provider returns, exactly
authoritativeMatch(tags, c) ==
  /\ c.Title # <<>> /\ tags["TITLE"] = c.Title
  /\ c.Artist # <<>> /\ tags["ARTIST"] = c.Artist
  /\ c.Album # <<>> /\ tags["ALBUM"] = c.Album
  /\ c.AlbumArtist # <<>> /\ tags["ALBUMARTIST"] = c.AlbumArtist

AlreadyResolved ==
  \E i \in 1..NProviders : \E k \in 1..Len(mock[i].results) :
    authoritativeMatch(fs0[1].tags, mock[i].results[k])

\* C13: Resolve is idempotent on a resolved file: with providers answering
\* the same, the second Resolve of a file whose tags a first confident
\* Resolve wrote finds a confident match again and leaves the file with the
\* tags the first Resolve gave it.
C13_Idempotent ==
  (pc = "twice" /\ AlreadyResolved)
    => /\ RatLeq(threshold, best.Confidence)
       /\ fs[1].tags = fs0[1].tags

\* every field fillGaps can fill is set in b
AllGapFieldsSet(b) ==
  /\ b.Genre # <<>>
  /\ b.TrackNumber # 0
  /\ b.DiscNumber # 0
  /\ b.Year # 0
  /\ b.ISRC # <<>>
  /\ b.ArtworkURL # <<>>

\* C14: when the primary match has Genre, TrackNumber, DiscNumber, Year, ISRC
\* and ArtworkURL all set, fillGaps calls no provider and returns the primary
\* match unchanged.
C14_CompleteMatchShortCircuits ==
  (pc \in {"gap", "filled"} /\ AllGapFieldsSet(best))
    => /\ pc = "filled"
       /\ gapCalled = {}
       /\ accepted = <<>>
       /\ base = best

C14_Witness ==
  /\ pc = "filled"
  /\ "fillGaps" \in ops
  /\ AllGapFieldsSet(best)
  /\ matchIdx < NProviders - 1
  /\ gapCalled = {}
  /\ base = best

\* C15: fillGaps calls only providers after the primary match's provider,
\* one after the other in configured order, and calls no provider once the
\* running result has every gap field set.
C15_GapProvidersAfterPrimary ==
  [][(gapCalled' # gapCalled /\ gapCalled' # {})
       => /\ gapCalled' = gapCalled \cup {matchIdx + 1 + Cardinality(gapCalled)}
          /\ \A j \in gapCalled' : matchIdx < j /\ j < NProviders
          /\ ~AllGapFieldsSet(base)]_vars

C15_Witness ==
  /\ pc = "filled"
  /\ matchIdx = 0
  /\ gapCalled = {1}
  /\ ~AllGapFieldsSet(best)
  /\ AllGapFieldsSet(base)

\* the provider answered with an error or with nothing
silent(resp) ==
  resp.err \/ Len(resp.results) = 0

\* fillGaps skips the answer resp of a provider: no candidate, or the best
\* candidate below the threshold
gapSkips(resp) ==
  silent(resp) \/ RatLess(pickBest(query, resp.results).Confidence, threshold)

\* C16: fillGaps merges a provider's best candidate only when it scores at
\* least the threshold; a provider that errors, returns nothing or whose best
\* candidate scores below the threshold leaves the running result as it was,
\* and fillGaps goes on with the next provider.
C16_GapFillerThreshold ==
  [][(pc = "gap" /\ gapCalled' # gapCalled /\ gapCalled' # {})
       => IF gapSkips(lastResp'[1])
          THEN /\ base' = base
               /\ accepted' = accepted
               /\ pc' = "gap"
               /\ provIdx' = provIdx + 1
          ELSE /\ base' = mergeTrackInfo(base, pickBest(query, lastResp'[1].results))
               /\ accepted' = Append(accepted, pickBest(query, lastResp'[1].results))]_vars

\* a provider below the threshold was passed over and a later one was merged
C16_Witness ==
  /\ pc = "filled"
  /\ matchIdx = 0
  /\ gapCalled = {1, 2}
  /\ Len(accepted) = 1
  /\ base # best
  /\ ~silent(lastResp[1])
  /\ accepted[1] = LastCandidate
  /\ RatLeq(threshold, LastCandidate.Confidence)

\* resolveFile failed to read or to write the tags of the k-th finished file
TagFailure(k) ==
  outcomes[k] \in {"read", "write"}

\* C17: a failed read or write of one file's tags adds exactly one to the
\* failure counter and leaves the batch going: unless the context is
\* cancelled, Resolve goes through every later file before it returns.
C17_TagFailureCountsOneFile ==
  /\ [][(pc = "returned" /\ err \in {"read", "write"})
          => /\ failed' = failed + 1
             /\ outcomes' = Append(outcomes, err)
             /\ fileIdx' = fileIdx + 1
             /\ pc' = "loop"
             /\ result' = "none"]_<<pc, failed, outcomes, fileIdx, result>>
  /\ []((pc = "done" /\ \E k \in 1..Len(outcomes) : TagFailure(k))
          => \/ /\ Len(outcomes) = Len(fs)
                /\ touched = 1..Len(fs)
             \/ result = "cancelled" /\ ctxDone)

\* the first file failed on the read, the second file was resolved and written
C17_Witness ==
  /\ pc = "done"
  /\ Len(outcomes) = 2
  /\ outcomes[1] = "read"
  /\ outcomes[2] = "nil"
  /\ failed = 1
  /\ fs[2].tags # fs0[2].tags

\* what holds of the current file once its artwork step has failed
ArtworkFailureState ==
  "artworkError" \in ops
    => /\ "WriteTags" \in ops
       /\ pc \in {"ensure", "returned"}
       /\ pc = "ensure" => /\ err = "none"
                           /\ fs[path].tags = WriteTags(fs0[path].tags, best)
                           /\ fs[path].image = fs0[path].image
       /\ pc = "returned" => /\ err = "nil"
                             /\ "ensureAlbumArtist" \in ops
                             /\ fs[path].tags
                                  \in {ensureAlbumArtist(WriteTags(fs0[path].tags, best), r, w) :
                                         r \in BOOLEAN, w \in BOOLEAN}

\* C18: once the tags are written, a failure of the artwork step (request,
\* status, read of the body, write of the image) does not fail the file:
\* resolveFile goes on to ensureAlbumArtist and returns nil, and the tags
\* written stay in the file.
C18_ArtworkFailureIsSoft ==
  /\ []ArtworkFailureState
  /\ [][("artworkError" \in ops /\ pc = "returned")
          => /\ failed' = failed
             /\ outcomes' = Append(outcomes, "nil")]_vars

\* the artwork step failed, the file was finished without an error and keeps
\* the title of the match
C18_Witness ==
  /\ "artworkError" \in ops
  /\ pc = "returned"
  /\ err = "nil"
  /\ "ensureAlbumArtist" \in ops
  /\ fs[path].tags["TITLE"] = best.Title
  /\ fs[path].tags # fs0[path].tags

\* the album boost applies to the result scored for the query
Boosted ==
  /\ query.Album # <<>>
  /\ best.Album # <<>>
  /\ RatLess(<<8, 10>>, similarity(normalize(query.Album), normalize(best.Album)))

\* the compilation penalty applies to the result scored
Penalized ==
  EqualFold(best.AlbumArtist, variousArtists)

\* C19: score returns a value in [0, 1] for every query and result, also
\* when the album boost applies to a score of 1.0 and when the compilation
\* penalty applies.
C19_ScoreInUnitInterval ==
  pc = "scored" => /\ best.Confidence[2] > 0
                   /\ RatLeq(<<0, 1>>, best.Confidence)
                   /\ RatLeq(best.Confidence, <<1, 1>>)

\* title and artist match exactly and the album boost applies: 1.1 clamped
C19_Witness ==
  /\ pc = "scored"
  /\ query.Artist # <<>>
  /\ query.Title = best.Title
  /\ query.Artist = best.Artist
  /\ Boosted
  /\ ~Penalized
  /\ best.Confidence = <<1, 1>>

\* the result has the title and the artist of the query, the artist not empty
ExactMatch ==
  /\ query.Title = best.Title
  /\ query.Artist = best.Artist
  /\ query.Artist # <<>>

\* C20 as stated: a result with the query's title and (non-empty) artist
\* scores at least 0.99 whatever its other fields.
C20_Original ==
  (pc = "scored" /\ ExactMatch) => RatLeq(<<99, 100>>, best.Confidence)

\* C20 amended: a result with the query's title and (non-empty) artist scores
\* at least 0.99 (it scores 1.0) unless its album artist is "Various
\* Artists" in any letter case; then it scores 0.8, or 0.88 with the album
\* boost.
C20_ExactMatchScore ==
  (pc = "scored" /\ ExactMatch)
    => IF ~Penalized THEN best.Confidence = <<1, 1>>
       ELSE IF Boosted THEN best.Confidence = <<22, 25>>
       ELSE best.Confidence = <<4, 5>>

\* an exact match with an album artist that is not the compilation marker
C20_Witness ==
  /\ pc = "scored"
  /\ ExactMatch
  /\ best.AlbumArtist # <<>>
  /\ ~Penalized
  /\ ~Boosted
  /\ RatLeq(<<99, 100>>, best.Confidence)

\* the similarity of the titles of the query and of the result scored
TitleSimilarity ==
  similarity(normalize(query.Title), normalize(best.Title))

\* C21: for a query without an artist the score is made of the title
\* similarity alone: the result's Artist is ignored, and the result with any
\* other Artist gets the same score.
C21_NoArtistTitleOnly ==
  (pc = "scored" /\ query.Artist = <<>>)
    => /\ best.Confidence
            = clamp(compilationPenalty(best, albumBoost(query, best, TitleSimilarity)))
       /\ (~Boosted /\ ~Penalized) => best.Confidence = TitleSimilarity
       /\ \A a \in ScoreArtists :
            score(query, [best EXCEPT !.Artist = a]) = best.Confidence

\* a result with an artist, scored 1.0 on its title for a query without one
C21_Witness ==
  /\ pc = "scored"
  /\ query.Artist = <<>>
  /\ query.Title # <<>>
  /\ best.Artist # <<>>
  /\ ~Boosted
  /\ ~Penalized
  /\ best.Confidence = <<1, 1>>

\* C22: similarity(a, b) is 1.0 when both strings are empty, 0.0 when exactly
\* one is, 1.0 when they are equal without their spaces, and otherwise the
\* number of tokens of a's token set that are in b's token set over the
\* larger of the two token-set sizes (0.0 when a token set is empty), also
\* for strings that repeat a token.
C22_SimilarityIsTokenSetOverlap ==
  pc = "compared"
    => LET a    == query.Title
           b    == best.Title
           setA == {tokenize(a)[k] : k \in 1..Len(tokenize(a))}
           setB == {tokenize(b)[k] : k \in 1..Len(tokenize(b))}
           larger == IF Cardinality(setB) > Cardinality(setA)
                     THEN Cardinality(setB) ELSE Cardinality(setA)
       IN  best.Confidence =
             IF a = <<>> /\ b = <<>> THEN <<1, 1>>
             ELSE IF a = <<>> \/ b = <<>> THEN <<0, 1>>
             ELSE IF Compact(a) = Compact(b) THEN <<1, 1>>
             ELSE IF setA = {} \/ setB = {} THEN <<0, 1>>
             ELSE Rat(Cardinality(setA \cap setB), larger)

\* the tag of the current file is v when written is true and is the tag the
\* file had before otherwise
TagIs(key, written, v) ==
  fs[path].tags[key] = IF written THEN v ELSE fs0[path].tags[key]

\* C23: WriteTags writes the non-zero fields of the TrackInfo and nothing
\* else: the tag of a field left at its zero value keeps the value the file
\* had, and the Date tag is the ReleaseDate when there is one, otherwise the
\* Year in digits.
C23_WriteTagsOnlyNonZero ==
  ("WriteTags" \in ops /\ pc \in {"artwork", "ensure"})
    => /\ TagIs("TITLE", best.Title # <<>>, best.Title)
       /\ TagIs("ARTIST", best.Artist # <<>>, best.Artist)
       /\ TagIs("ALBUM", best.Album # <<>>, best.Album)
       /\ TagIs("ALBUMARTIST", best.AlbumArtist # <<>>, best.AlbumArtist)
       /\ TagIs("TRACKNUMBER", best.TrackNumber # 0, Itoa(best.TrackNumber))
       /\ TagIs("DISCNUMBER", best.DiscNumber # 0, Itoa(best.DiscNumber))
       /\ TagIs("GENRE", best.Genre # <<>>, best.Genre)
       /\ TagIs("ISRC", best.ISRC # <<>>, best.ISRC)
       /\ IF best.ReleaseDate # <<>> THEN fs[path].tags["DATE"] = best.ReleaseDate
          ELSE TagIs("DATE", best.Year # 0, Itoa(best.Year))

\* a match without a genre and with a year only was written to a file that
\* had a genre
C23_Witness ==
  /\ "WriteTags" \in ops
  /\ pc = "ensure"
  /\ best.Genre = <<>>
  /\ fs0[path].tags["GENRE"] # <<>>
  /\ fs[path].tags["GENRE"] = fs0[path].tags["GENRE"]
  /\ best.ReleaseDate = <<>>
  /\ best.Year > 0
  /\ fs[path].tags["DATE"] = Itoa(best.Year)
  /\ fs[path].tags["TITLE"] # fs0[path].tags["TITLE"]

\* ensureAlbumArtist left every tag but AlbumArtist as it was, and changed
\* AlbumArtist only for a file without one and with an artist, to v
albumArtistDerived(v) ==
  /\ \A k \in TagKeys \ {"ALBUMARTIST"} : fs[1].tags[k] = fs0[1].tags[k]
  /\ fs[1].tags["ALBUMARTIST"] # fs0[1].tags["ALBUMARTIST"]
       => /\ fs0[1].tags["ALBUMARTIST"] = <<>>
          /\ fs0[1].tags["ARTIST"] # <<>>
          /\ fs[1].tags["ALBUMARTIST"] = v

\* the Artist tag ensureAlbumArtist found
ArtistRead ==
  fs0[1].tags["ARTIST"]

\* C24 as stated: ensureAlbumArtist writes AlbumArtist only for a file
\* without an AlbumArtist and with an Artist; it writes the Artist up to its
\* first comma, trimmed, or the whole Artist when it has no comma; an
\* AlbumArtist the file has is never changed.
C24_Original ==
  pc = "returned"
    => albumArtistDerived(IF Index(ArtistRead, ",") >= 0
                          THEN TrimSpace(SubSeq(ArtistRead, 1, Index(ArtistRead, ",")))
                          ELSE ArtistRead)

\* C24 amended: as stated, but the whole Artist is written also when the
\* Artist begins with the comma.
C24_AlbumArtistFromArtist ==
  pc = "returned"
    => albumArtistDerived(IF Index(ArtistRead, ",") > 0
                          THEN TrimSpace(SubSeq(ArtistRead, 1, Index(ArtistRead, ",")))
                          ELSE ArtistRead)

\* an Artist beginning with a comma became the AlbumArtist as it is
C24_Witness ==
  /\ pc = "returned"
  /\ Index(ArtistRead, ",") = 0
  /\ fs0[1].tags["ALBUMARTIST"] = <<>>
  /\ fs[1].tags["ALBUMARTIST"] = ArtistRead

\* the raw artist trimmed, without the VEVO suffix, trimmed again
ArtistGiven ==
  TrimSpace(vevoPattern(TrimSpace(fs[1].tags["ARTIST"])))

\* the raw title trimmed, without decorations and featuring credits
TitleCleaned ==
  IF TrimSpace(fs[1].tags["TITLE"]) = <<>> THEN <<>>
  ELSE RemoveFeaturing(CleanupTitle(TrimSpace(fs[1].tags["TITLE"]), 1), 1)

\* the positions of s at which a separator stands with text on both sides
Separators(s) ==
  {p \in 2..(Len(s) - 1) : IsDash(s[p])}

\* the first of them
FirstSeparator(s) ==
  CHOOSE p \in Separators(s) : \A r \in Separators(s) : p <= r

\* C25: NormalizeQuery splits the title on a dash-family separator only when
\* the artist is empty after trimming and VEVO stripping; then the text left
\* of the separator is the Artist and the text right of it the Title; with
\* an artist the title is never split.
C25_SplitOnlyWithoutArtist ==
  pc = "normalized"
    => IF ArtistGiven = <<>> /\ Separators(TitleCleaned) # {}
       THEN /\ query.Artist
                 = TrimSpace(SubSeq(TitleCleaned, 1, FirstSeparator(TitleCleaned) - 1))
            /\ query.Title
                 = TrimSpace(SubSeq(TitleCleaned, FirstSeparator(TitleCleaned) + 1,
                                    Len(TitleCleaned)))
       ELSE /\ query.Artist = ArtistGiven
            /\ query.Title = TrimSpace(TitleCleaned)

\* a channel name that is the VEVO suffix alone, and a title that was split
C25_Witness ==
  /\ pc = "normalized"
  /\ fs[1].tags["ARTIST"] # <<>>
  /\ ArtistGiven = <<>>
  /\ query.Artist = <<"x">>
  /\ query.Title = <<"y", " ", "-", " ", "z">>

\* the caller's Search has been called
Called(c) ==
  calls[c].pc # "idle"

\* the caller's Search was called with a query that yields no search term
SparseCall(c) ==
  Called(c) /\ searchTerm(client.kind, calls[c].query) = <<>>

\* C26: a Search of any provider (Spotify, MusicBrainz, Deezer, iTunes) whose
\* query yields an empty search term has returned (nil, nil), and it has made
\* no network request, no token request and no rate-limit wait.
C26_EmptyTermReturnsNil ==
  \A c \in DOMAIN calls :
    SparseCall(c) =>
      /\ calls[c].pc = "done"
      /\ calls[c].ret = "nil"
      /\ ~calls[c].requested
      /\ ~calls[c].askedToken
      /\ ~calls[c].waited
      /\ net = newNet
      /\ client = newClient(client.kind)

\* a Search returned on an empty term although the query has a field: iTunes
\* leaves the album out of the term
C26_Witness ==
  \E c \in DOMAIN calls :
    /\ SparseCall(c)
    /\ calls[c].query.Album # <<>>
    /\ calls[c].ret = "nil"

\* the request the caller's Search made last has got its final answer
RequestOver(c) ==
  /\ calls[c].resps # <<>>
  /\ calls[c].pc \in {"done", "enrich", "store"}

\* the first response to the caller's last request is a rate-limit
\* rejection: 429, for MusicBrainz also 503
Rejected(c) ==
  /\ calls[c].resps # <<>>
  /\ \/ client.kind \in {"spotify", "musicbrainz"} /\ calls[c].resps[1].status = 429
     \/ client.kind = "musicbrainz" /\ calls[c].resps[1].status = 503

\* the search request of the caller's Search is over, and Search returns
\* results (for Spotify after enrichGenres) or an error
SearchOver(c) ==
  /\ RequestOver(c)
  /\ calls[c].purpose = "search"
  /\ calls[c].pc \in {"done", "enrich"}

SearchSucceeds(c) ==
  calls[c].pc = "enrich" \/ calls[c].ret = "results"

\* the last response is 200 with a body that decodes
LastIsOK(c) ==
  calls[c].resps[Len(calls[c].resps)] = [status |-> 200, body |-> "ok"]

\* a request gets at most two attempts; Search succeeds on a final 200 and
\* returns an error otherwise
AtMostOneRetry ==
  \A c \in DOMAIN calls :
    /\ Len(calls[c].resps) <= 2
    /\ SearchOver(c) => (SearchSucceeds(c) <=> LastIsOK(c))
    /\ SearchOver(c) /\ ~SearchSucceeds(c) => calls[c].ret = "error"

C28_MinimumInterval ==
  \A i, j \in DOMAIN net.leaves :
    i < j => net.leaves[j] - net.leaves[i] >= Second

\* the caller's enrichGenres is about to look up an artist whose genres an
\* earlier getArtistGenres has fetched and put into the cache
LooksUpFetched(c) ==
  /\ calls[c].pc = "enrich"
  /\ calls[c].items # <<>>
  /\ Head(calls[c].items) \in net.fetched

\* the caller's request to the artist endpoint was answered with 200 and
\* genres that decode
ArtistFetched(c) ==
  /\ calls[c].purpose = "artist"
  /\ calls[c].pc = "store"
  /\ LastIsOK(c)

\* C29: once the genres of an artist ID have been fetched successfully, every
\* later lookup of that ID is served from the cache, without a request to the
\* artist endpoint; and the cache changes only when a lookup has succeeded, so
\* a failed lookup stores nothing.
C29_GenreCache ==
  [][ /\ \A c \in DOMAIN calls :
           LooksUpFetched(c) /\ calls'[c] # calls[c] =>
             /\ calls'[c].pc = "enrich"
             /\ calls'[c].items = Tail(calls[c].items)
             /\ calls'[c].resps = calls[c].resps
      /\ client'.genreCache # client.genreCache =>
           \E c \in DOMAIN calls :
             /\ ArtistFetched(c)
             /\ calls'[c] # calls[c]
             /\ {e[1] : e \in client'.genreCache} =
                  {e[1] : e \in client.genreCache} \cup {Head(calls[c].items)}
    ]_vars

\* a lookup of a fetched artist by a Search that has sent no artist request
C29_Witness ==
  \E c \in DOMAIN calls :
    /\ LooksUpFetched(c)
    /\ calls[c].purpose = "search"

\* the client holds no token: the token endpoint has not answered with one
HoldsNoToken ==
  net.issued = <<>> \/ net.issued[1].body.AccessToken = ""

\* the token held is within 60 seconds of its expiry or past it
TokenNearExpiry ==
  /\ net.issued # <<>>
  /\ now >= net.issued[1].at + (net.issued[1].body.ExpiresIn - 60) * Second

\* C30: the Spotify client requests a token only when it holds none or the
\* one it holds is within 60 seconds of its expiry or past it, so Search calls
\* made while the token is valid cause no token request, and concurrent calls
\* never have two token requests in flight.
C30_TokenRequestedOnlyWhenNeeded ==
  /\ [](Cardinality({c \in DOMAIN calls : calls[c].pc = "token"}) <= 1)
  /\ [][ \A c \in DOMAIN calls :
           calls[c].pc # "token" /\ calls'[c].pc = "token" =>
             HoldsNoToken \/ TokenNearExpiry ]_vars

\* a Search goes to its request with the cached token, without asking for one
C30_Witness ==
  \E c \in DOMAIN calls :
    /\ client.kind = "spotify"
    /\ calls[c].pc = "do"
    /\ calls[c].purpose = "search"
    /\ ~calls[c].askedToken
    /\ ~HoldsNoToken

\* the steps of resolveFile that come after the searches
AfterSearch ==
  {"WriteTags", "artwork", "artworkError", "ensureAlbumArtist"}

\* what resolveFile has done to the current file is a prefix of: read the
\* tags, primary selection, gap filling, WriteTags, artwork, ensureAlbumArtist
OpsInOrder ==
  /\ ops # {} => "ReadTags" \in ops
  /\ "fillGaps" \in ops => "findPrimaryMatch" \in ops
  /\ "WriteTags" \in ops => "fillGaps" \in ops
  /\ "artwork" \in ops => "WriteTags" \in ops
  /\ "ensureAlbumArtist" \in ops => pc = "returned"
  /\ pc = "primary" => ops \cap (AfterSearch \cup {"fillGaps"}) = {}
  /\ pc = "gap" => "fillGaps" \in ops /\ ops \cap AfterSearch = {}
  /\ pc = "artwork" => ops \cap {"artwork", "ensureAlbumArtist"} = {}

\* the provider the next Search goes to comes after all those called before
SearchesInOrder ==
  /\ pc = "primary" => primCalled = 0..(provIdx - 1)
  /\ pc = "gap" => \A j \in gapCalled : matchIdx < j /\ j < provIdx
  /\ pc = "gap" => matchIdx < provIdx

\* C33: within one Resolve call the work is sequential: a step makes at most
\* one Search call, the files are handled in list order, and a confidently
\* matched file goes through read tags, the primary Search calls in provider
\* order, the gap-fill Search calls, WriteTags, the artwork and
\* ensureAlbumArtist in this order, all before the next file is read.
C33_StrictlySequential ==
  /\ [](OpsInOrder /\ SearchesInOrder)
  /\ [][ /\ Cardinality((primCalled' \cup gapCalled') \ (primCalled \cup gapCalled)) <= 1
         /\ ("ReadTags" \in ops' /\ "ReadTags" \notin ops) =>
              ops = {} /\ fileIdx = Len(outcomes) /\ touched \subseteq 1..(fileIdx + 1)
         /\ ("WriteTags" \in ops' /\ "WriteTags" \notin ops) =>
              pc = "filled" /\ ops \cap AfterSearch = {}
         /\ ("ensureAlbumArtist" \in ops' /\ "WriteTags" \in ops) =>
              (best.ArtworkURL # <<>> => "artwork" \in ops)
         /\ (outcomes' # outcomes /\ "WriteTags" \in ops /\ err # "write") =>
              "ensureAlbumArtist" \in ops /\ err = "nil"
         /\ fileIdx' # fileIdx => fileIdx' = fileIdx + 1 /\ ops' = {} /\ pc = "returned"
       ]_vars

\* the second file of the batch has gone through every step
C33_Witness ==
  /\ fileIdx = 1
  /\ Len(outcomes) = 1
  /\ pc = "returned"
  /\ {"ReadTags", "findPrimaryMatch", "Search", "fillGaps", "WriteTags", "artwork",
      "ensureAlbumArtist"} \subseteq ops

\* the providers primary selection called for the current file, once gap
\* filling has begun: a confident match is returned by the provider that
\* supplied it, so they are the providers up to matchIdx
PrimaryProviders ==
  0..matchIdx

\* C37: during the resolution of one file no provider is searched twice:
\* primary selection calls each of the providers 0..i once, i being the index
\* of the match, and gap filling calls only providers after i, each once.
C37_EachProviderOnce ==
  /\ []((pc = "primary" /\ provIdx < NProviders) => provIdx \notin primCalled)
  /\ []((pc = "gap" /\ provIdx < NProviders) =>
          provIdx \notin gapCalled /\ provIdx \notin PrimaryProviders)
  /\ [](pc \in {"gap", "filled"} => gapCalled \cap PrimaryProviders = {})
  /\ [][ /\ (pc = "selected" /\ pc' \in {"gap", "filled"}) =>
              primCalled = PrimaryProviders /\ matchIdx = provIdx
         /\ pc \in {"gap", "filled"} => matchIdx' = matchIdx
       ]_vars

\* gap filling has called every provider after the first, which supplied the
\* match
C37_Witness ==
  /\ pc = "filled"
  /\ matchIdx = 0
  /\ gapCalled = 1..(NProviders - 1)

\* the score of the k-th result of the list pickBest was called with
ScoreAt(k) ==
  score(query, mock[1].results[k])

\* C38: pickBest returns the first result of the list whose score is the
\* maximum over the list, with that score in its Confidence field.
C38_PickBestFirstMaximum ==
  pc = "picked" =>
    \E k \in 1..Len(mock[1].results) :
      /\ best = [mock[1].results[k] EXCEPT !.Confidence = ScoreAt(k)]
      /\ \A j \in 1..Len(mock[1].results) : RatLeq(ScoreAt(j), ScoreAt(k))
      /\ \A j \in 1..(k - 1) : RatLess(ScoreAt(j), ScoreAt(k))

\* pickBest chose the second of three results, the third having the same
\* score and another genre
C38_Witness ==
  /\ pc = "picked"
  /\ Len(mock[1].results) = 3
  /\ best.Genre = mock[1].results[2].Genre
  /\ best.Genre # mock[1].results[3].Genre
  /\ ScoreAt(2) = ScoreAt(3)
  /\ RatLess(ScoreAt(1), ScoreAt(2))

\* s begins with p
HasPrefix(s, p) ==
  /\ Len(p) <= Len(s)
  /\ SubSeq(s, 1, Len(p)) = p

\* C39: whenever the primary match has a non-zero Year, the Date tag that
\* WriteTags writes after gap filling is that year or a release date that
\* begins with it.
C39_DateAgreesWithPrimaryYear ==
  [][ (pc = "filled" /\ pc' \in {"artwork", "ensure"} /\ best.Year # 0) =>
        HasPrefix(fs'[fileIdx + 1].tags["DATE"], Itoa(best.Year)) ]_vars

\* ------------------------------------------------------------------------
\* The job manager
\* ------------------------------------------------------------------------

\* CompletedAt is set and lies more than the retention before now
OldFinished(id) ==
  /\ jm.jobs[id].CompletedAt # <<>>
  /\ jm.jobs[id].CompletedAt[1] + jobRetention < now

\* C31: a step that removes jobs removes exactly the jobs whose CompletedAt
\* is set and older than the retention of one hour, and no step removes a
\* job that is pending or running or that finished within the retention.
C31_CleanupRemovesOnlyOldFinished ==
  [][ /\ DOMAIN jm.jobs \ DOMAIN jm'.jobs # {} =>
           DOMAIN jm.jobs \ DOMAIN jm'.jobs = {id \in DOMAIN jm.jobs : OldFinished(id)}
      /\ \A id \in DOMAIN jm.jobs :
           \/ jm.jobs[id].Status \in {StatusPending, StatusRunning}
           \/ ~OldFinished(id)
           => id \in DOMAIN jm'.jobs ]_vars

\* C32: UpdateJob sets StartedAt when the status changes to running and
\* StartedAt is nil, CompletedAt when the status changes to completed, failed
\* or cancelled and CompletedAt is nil, and at no other time; a timestamp that
\* is set never changes; an UpdateJob that returns "job not found" leaves
\* every job and every listener as it was.
C32_TimestampsSetOnce ==
  [][ /\ \A id \in DOMAIN jm.jobs \cap DOMAIN jm'.jobs :
           /\ jm.jobs[id].StartedAt # <<>> =>
                jm'.jobs[id].StartedAt = jm.jobs[id].StartedAt
           /\ jm.jobs[id].CompletedAt # <<>> =>
                jm'.jobs[id].CompletedAt = jm.jobs[id].CompletedAt
           /\ jm.jobs[id].StartedAt = <<>> =>
                jm'.jobs[id].StartedAt =
                  IF jm.jobs[id].Status # StatusRunning /\ jm'.jobs[id].Status = StatusRunning
                    THEN <<now>> ELSE <<>>
           /\ jm.jobs[id].CompletedAt = <<>> =>
                jm'.jobs[id].CompletedAt =
                  IF jm.jobs[id].Status # jm'.jobs[id].Status /\ jm'.jobs[id].Status \in Finished
                    THEN <<now>> ELSE <<>>
      /\ \A id \in DOMAIN jm'.jobs \ DOMAIN jm.jobs :
           jm'.jobs[id].StartedAt = <<>> /\ jm'.jobs[id].CompletedAt = <<>>
      /\ web'.ret = "job not found" =>
           jm' = jm /\ web'.conns = web.conns ]_vars

\* an UpdateJob has just failed for a job that is gone, and another job has
\* failed after it was cancelled, at an instant later than its CompletedAt
C32_Witness ==
  /\ web.ret = "job not found"
  /\ \E id \in DOMAIN jm.jobs :
       /\ jm.jobs[id].Status = StatusFailed
       /\ web.cancel[id] = "done"
       /\ jm.jobs[id].CompletedAt[1] < jm.jobs[id].StartedAt[1]

\* C40: a job that has been running and whose status the cancel request has
\* set to cancelled keeps the status cancelled in every later step, as long
\* as the manager holds it.
C40_CancelledStaysCancelled ==
  [][ \A id \in DOMAIN jm.jobs \cap DOMAIN jm'.jobs :
        jm.jobs[id].Status = StatusCancelled /\ jm.jobs[id].StartedAt # <<>> =>
          jm'.jobs[id].Status = StatusCancelled ]_vars

\* what a listener's buffer holds after one more non-blocking send
AfterSend(n) ==
  IF n < ListenerBuffer THEN n + 1 ELSE n

\* C34: whatever the order of UpdateJob, Subscribe, Unsubscribe and cleanup,
\* no UpdateJob sends on a closed channel and no closed channel is in a list
\* of listeners; an UpdateJob of a job that exists ends with one more update
\* in the buffer of each of the job's listeners, except the listeners whose
\* buffer of ten is full, and with every other channel as it was.
C34_UpdateJobNeverBlocksOrPanics ==
  /\ [](/\ ~web.panicked
        /\ \A id \in DOMAIN jm.listeners : \A c \in Elems(jm.listeners[id]) :
             ~web.conns[c].closed)
  /\ [][ web'.ret = "nil" =>
           \E id \in DOMAIN jm.jobs : \A c \in Conns :
             /\ web'.conns[c].pc = web.conns[c].pc
             /\ web'.conns[c].closed = web.conns[c].closed
             /\ web'.conns[c].n =
                  IF c \in Elems(listenersOf(jm, id))
                    THEN AfterSend(web.conns[c].n) ELSE web.conns[c].n ]_vars

\* an UpdateJob has just returned, after an update that a full buffer has
\* missed and after a listener has unsubscribed and its channel is closed
C34_Witness ==
  /\ web.ret = "nil"
  /\ web.dropped
  /\ \E c \in Conns : web.conns[c].closed
  /\ \E c \in Conns : web.conns[c].pc = "open" /\ web.conns[c].n = ListenerBuffer

\* ------------------------------------------------------------------------
\* The downloader and the pipeline
\* ------------------------------------------------------------------------

\* C35: at every instant at most ParallelJobs goroutines of DownloadAll are
\* inside DownloadSingle, and when DownloadAll has returned, with or without
\* a cancelled context, every goroutine it started is done.
C35_BoundedParallelDownloads ==
  /\ Cardinality(downloading(dl)) <= dl.parallel
  /\ dl.pc = "returned" => \A k \in DOMAIN dl.g : dl.g[k] \in {"none", "done"}

\* the context was cancelled midway: the loop is left with a URL not
\* started, DownloadAll waits, ParallelJobs goroutines are inside
\* DownloadSingle and one more waits for the semaphore
C35_Witness ==
  /\ dl.pc = "waitCancelled"
  /\ dl.i < Len(dl.g)
  /\ Cardinality(downloading(dl)) = dl.parallel
  /\ \E k \in DOMAIN dl.g : dl.g[k] = "started"

\* imp.Import has returned an error
ImportFailed(p) ==
  p.importErr \notin {"none", "nil"}

\* C36: when Import returns an error, Run hands a warning about it to
\* hooks.OnWarning, where the hook is set, and goes on with what follows a
\* successful Import: ResolveLyrics unless cfg.SkipLyrics, then the move to
\* the output directory; what Run returns is then the outcome of the move
\* alone, nil when the move succeeds.
C36_ImportErrorIsWarning ==
  /\ [][ (pl.pc = "import" /\ ImportFailed(pl')) =>
           /\ pl'.pc = IF pl.cfg.SkipLyrics THEN "move" ELSE "lyrics"
           /\ pl'.ret = "none"
           /\ pl'.warnings =
                IF pl.cfg.OnWarning
                  THEN Append(pl.warnings, "metadata resolution failed")
                  ELSE pl.warnings ]_vars
  /\ [](pl.pc = "returned" /\ ImportFailed(pl) =>
           /\ "move" \in pl.ran
           /\ ~pl.cfg.SkipLyrics => "lyrics" \in pl.ran
           /\ pl.ret = IF pl.moveErr THEN "failed to move files to output" ELSE "nil")

\* Run has returned nil after Resolve failed for every file: the warning
\* was delivered after a warning about failed downloads, the lyrics were
\* resolved and the files moved
C36_Witness ==
  /\ pl.pc = "returned"
  /\ pl.ret = "nil"
  /\ pl.importErr = "all files failed"
  /\ pl.warnings = <<"videos failed to download", "metadata resolution failed">>
  /\ {"lyrics", "move"} \subseteq pl.ran
====
